---- MODULE Spec2Model ----
(***************************************************************************)
(* Event planner: the calendar grid (dateUtils.getCalendarGrid), the       *)
(* Calendar component that renders it, the association of events with      *)
(* days (Dashboard / Calendar / EventStorage getEventsForDate) and the     *)
(* venue configuration services (localStorage-backed and API-backed).      *)
(*                                                                         *)
(* A JavaScript Date is modelled by its time value on the local wall       *)
(* clock, counted in minutes since 1970-01-01 00:00 (the program treats    *)
(* all dates as local wall-clock dates; seconds and milliseconds carry no  *)
(* behaviour here).  The local-time field accessors and the Date           *)
(* constructor are computed as ECMAScript defines them (Day, YearFromTime, *)
(* MonthFromTime, DateFromTime, WeekDay, MakeDay).                         *)
(*                                                                         *)
(* The repository holds two implementations of EventStorage and of         *)
(* ConfigService (browser localStorage, and the REST API in front of SQL   *)
(* Server); an application is built with one pair of them, chosen in the   *)
(* initial state (backend).                                                *)
(***************************************************************************)
EXTENDS Integers, Sequences, FiniteSets, TLC

VARIABLES
    \* Calendar component
    currentDate,      \* Calendar.currentDate (the displayed month is its year/month)
    calendarGrid,     \* the grid Calendar.render obtained from getCalendarGrid
    calEvents,        \* Calendar.events
    calSelectedDate,  \* Calendar.selectedDate
    \* Dashboard
    now,              \* the clock: what "new Date()" returns
    events,           \* Dashboard.events
    selectedDate,     \* Dashboard.selectedDate
    eventList,        \* the events Dashboard.updateEventList shows
    stats,            \* the counts Dashboard.updateStats shows
    \* EventStorage
    backend,          \* the services built in: "local" (localStorage) or "api" (REST API / SQL Server)
    lsIndex,          \* localStorage['eventplanner_events']: the list of event ids
    lsRecords,        \* localStorage['event_' + id]: id -> stored record
    dbEvents,         \* dbo.Events rows, in insertion order
    issued,           \* how many event ids uuidv4() / NEWID() have given out
    ret,              \* what the last call of a service method returned
    \* ConfigService
    config,           \* ConfigService.config (in memory)
    lsItem,           \* localStorage['event-planner-config']
    dbConfig,         \* the venue's dbo.VenueConfigurations row
    loads,            \* the calls of ensureLoaded() that are waiting for an answer
    \* ConfigPage
    page              \* ConfigPage.config, and what it shares with the service

calendarVars == <<currentDate, calSelectedDate, calendarGrid, calEvents>>
dashboardVars == <<events, selectedDate, eventList, stats>>
storageVars == <<backend, lsIndex, lsRecords, dbEvents, issued>>
configVars == <<config, lsItem, dbConfig>>
pageVars == <<loads, page>>

vars == <<now, calendarVars, dashboardVars, storageVars, ret, configVars, pageVars>>

-----------------------------------------------------------------------------
(* Bounds of the model *)

\* The calendar is navigated within FirstYear .. FirstYear + NumYears - 1.
FirstYear == 2024
NumYears == 3

Years == FirstYear .. (FirstYear + NumYears - 1)

-----------------------------------------------------------------------------
(* ECMAScript Date arithmetic, in minutes *)

MinutesPerDay == 24 * 60

Day(t) == t \div MinutesPerDay

TimeWithinDay(t) == t % MinutesPerDay

IsLeapYear(y) == (y % 4 = 0 /\ y % 100 # 0) \/ y % 400 = 0

DayFromYear(y) ==
    365 * (y - 1970) + ((y - 1969) \div 4) - ((y - 1901) \div 100) + ((y - 1601) \div 400)

\* The largest year y with DayFromYear(y) <= Day(t).  A year has 365 or 366
\* days, so for the dates of this and the next centuries it is the year
\* 1970 + Day(t) \div 366 or the one after.
YearFromTime(t) ==
    LET y == 1970 + (Day(t) \div 366)
    IN  IF DayFromYear(y + 1) <= Day(t) THEN y + 1 ELSE y

LeapOf(y) == IF IsLeapYear(y) THEN 1 ELSE 0

\* Number of days before month m (0-based) in a year, leap is 0 or 1.
DaysBeforeMonthOfCommonYear == <<0, 31, 59, 90, 120, 151, 181, 212, 243, 273, 304, 334, 365>>

DaysBeforeMonth(m, leap) ==
    DaysBeforeMonthOfCommonYear[m + 1] + (IF m >= 2 THEN leap ELSE 0)

\* MonthFromTime of the day numbered d within a year: the month m with
\* DaysBeforeMonth(m) <= d < DaysBeforeMonth(m + 1).  A month has at most 31
\* days and m months have more than 31 * (m - 1), so it is d \div 31 or the
\* month after.
MonthOfDay(d, leap) ==
    LET m == d \div 31
    IN  IF d >= DaysBeforeMonth(m + 1, leap) THEN m + 1 ELSE m

\* The local calendar fields of a time value
Civil(t) ==
    LET y == YearFromTime(t)
        leap == LeapOf(y)
        d == Day(t) - DayFromYear(y)
        m == MonthOfDay(d, leap)
    IN  [year |-> y, month |-> m, date |-> d - DaysBeforeMonth(m, leap) + 1]

\* Date.prototype.getFullYear / getMonth / getDate / getDay
getFullYear(t) == YearFromTime(t)

getMonth(t) == Civil(t).month

getDate(t) == Civil(t).date

getDay(t) == (Day(t) + 4) % 7

\* MakeDay(year, month, date): month and date may lie outside their range
\* and are carried over, as in new Date(y, m, d), setDate and setMonth.
MakeDay(year, month, date) ==
    LET ym == year + ((month - (month % 12)) \div 12)
        mn == month % 12
    IN  DayFromYear(ym) + DaysBeforeMonth(mn, LeapOf(ym)) + date - 1

\* new Date(year, month, date): local midnight of that day
NewDate(year, month, date) == MakeDay(year, month, date) * MinutesPerDay

\* date.setDate(d): same year, month and time of day, day-of-month d
setDate(t, d) ==
    LET c == Civil(t)
    IN  MakeDay(c.year, c.month, d) * MinutesPerDay + TimeWithinDay(t)

\* date.setMonth(m): same year, day-of-month and time of day, month m
setMonth(t, m) ==
    LET c == Civil(t)
    IN  MakeDay(c.year, m, c.date) * MinutesPerDay + TimeWithinDay(t)

-----------------------------------------------------------------------------
(* dateUtils.getCalendarGrid *)

\* A loop that stops after five weeks
GridCells_short == 5 * 7

\* for (let i = 0; i < 42; i++)
GridCells == 42

\* if (currentWeek.length === 7)
WeekLength == 7

\* Stepping forward by the weekday of the 1st instead of backward
GridStart_forward(firstDay) == setDate(firstDay, getDate(firstDay) + getDay(firstDay))

\* startDate.setDate(startDate.getDate() - startDate.getDay())
GridStart(firstDay) == setDate(firstDay, getDate(firstDay) - getDay(firstDay))

\* A loop that moves one Date object by i at each turn, so that the moves add up
GridCell_cumulative(startDate, i) == setDate(startDate, getDate(startDate) + ((i * (i + 1)) \div 2))

\* The cell the loop pushes at index i (0-based): a copy of startDate moved by
\* setDate(startDate.getDate() + i).
GridCell(startDate, i) == setDate(startDate, getDate(startDate) + i)

\* The weeks the loop has pushed when it ends: a week is pushed each time the
\* week being filled reaches WeekLength cells, so cells left over in a last,
\* shorter week are not returned.
GridWeeks(startDate) ==
    [w \in 1..(GridCells \div WeekLength) |->
        [c \in 1..WeekLength |-> GridCell(startDate, (w - 1) * WeekLength + c - 1)]]

getCalendarGrid(year, month) == GridWeeks(GridStart(NewDate(year, month, 1)))

-----------------------------------------------------------------------------
(* EventStorage: events, and the two stores *)

\* At most MaxEvents events are created in a behaviour.
MaxEvents == 2

\* The days events and target dates are drawn from: the last two days of
\* February of the first modelled leap year and the day after (a month end
\* and a leap day lie between them), each at the first and the last minute.
LeapYear == CHOOSE y \in Years : IsLeapYear(y)

EventDays == { NewDate(LeapYear, 1, 28), NewDate(LeapYear, 1, 29), NewDate(LeapYear, 2, 1) }

LastMinute == 23 * 60 + 59

\* The instants events start and end at, and target dates are taken from
Instants ==
    { NewDate(LeapYear, 1, 28) + LastMinute,
      NewDate(LeapYear, 1, 29),
      NewDate(LeapYear, 1, 29) + LastMinute,
      NewDate(LeapYear, 2, 1) }

\* Titles in the order the database collation sorts them
TitleOrder == << "Team Meeting" >>

Titles == { TitleOrder[i] : i \in 1..Len(TitleOrder) }

TitleRank(title) == CHOOSE i \in 1..Len(TitleOrder) : TitleOrder[i] = title

\* CreateEventData as EventEditorPage.collectFormData lets it through:
\* a draft with startDateTime >= endDateTime is rejected by the form.
EventData ==
    { d \in [title : Titles, startDate : Instants, endDate : Instants, priority : {"high"},
              attendees : {<<>>}] :
        d.endDate > d.startDate }

\* Date.prototype.toISOString, and new Date(isoString)
toISOString(t) == [iso |-> t]

ParseDate(str) == str.iso

Range(seq) == { seq[i] : i \in 1..Len(seq) }

\* Array.prototype.sort with (a, b) => key(a) - key(b): stable, ascending.
\* The elements are sorted as pairs of their key and themselves;
\* InsertByKey puts a pair behind the pairs whose key is not greater.
RECURSIVE InsertByKey(_, _)
InsertByKey(sorted, x) ==
    IF sorted = <<>> THEN <<x>>
    ELSE IF Head(sorted).key <= x.key
         THEN <<Head(sorted)>> \o InsertByKey(Tail(sorted), x)
         ELSE <<x>> \o sorted

RECURSIVE SortKeyed(_)
SortKeyed(pairs) ==
    IF pairs = <<>> THEN <<>>
    ELSE InsertByKey(SortKeyed(SubSeq(pairs, 1, Len(pairs) - 1)), pairs[Len(pairs)])

\* seq sorted by the keys given for its elements (keys[i] is the key of seq[i])
SortByKey(seq, keys) ==
    LET sorted == SortKeyed([i \in 1..Len(seq) |-> [key |-> keys[i], item |-> seq[i]]])
    IN  [i \in 1..Len(seq) |-> sorted[i].item]

\* No sort: the list as it is
SortByStartDate_unsorted(seq) == seq

\* sort((a, b) => a.startDate.getTime() - b.startDate.getTime())
SortByStartDate(seq) == SortByKey(seq, [i \in 1..Len(seq) |-> seq[i].startDate])

(* localStorage EventStorage *)

\* JSON.stringify(updatedEvent): the dates become ISO strings
StringifyEvent(e) ==
    [id |-> e.id, title |-> e.title, priority |-> e.priority, attendees |-> e.attendees,
     startDate |-> toISOString(e.startDate), endDate |-> toISOString(e.endDate)]

\* loadEvent: JSON.parse and the dates converted back to Date objects
LsLoadEvent(records, id) ==
    IF id \in DOMAIN records
    THEN [id |-> records[id].id, title |-> records[id].title,
          priority |-> records[id].priority,
          attendees |-> records[id].attendees,
          startDate |-> ParseDate(records[id].startDate),
          endDate |-> ParseDate(records[id].endDate)]
    ELSE [null |-> TRUE]

\* loadAllEvents: each id of the list loaded, the found ones sorted
LsLoadAllEvents(index, records) ==
    LET found == SelectSeq(index, LAMBDA id : id \in DOMAIN records)
    IN  SortByStartDate([i \in 1..Len(found) |-> LsLoadEvent(records, found[i])])

\* new Date(d.getFullYear(), d.getMonth(), d.getDate())
StartOfDay(t) == NewDate(getFullYear(t), getMonth(t), getDate(t))

\* The comparison made on the instants themselves, not on their days
OverlapsDay_instants(e, date) == date >= e.startDate /\ date <= e.endDate

\* targetDate >= eventStartDate && targetDate <= eventEndDate
OverlapsDay(e, date) ==
    /\ StartOfDay(date) >= StartOfDay(e.startDate)
    /\ StartOfDay(date) <= StartOfDay(e.endDate)

\* getEventsForDate (localStorage): loadAllEvents, then the filter
LsGetEventsForDate(index, records, date) ==
    SelectSeq(LsLoadAllEvents(index, records), LAMBDA e : OverlapsDay(e, date))

(* API EventStorage and the server behind it *)

\* The VenueId of the venue with code DEMO, whose events the application
\* shows, and that of another venue of the same database
DemoVenueId == "demo-venue"

Venues == { DemoVenueId, "other-venue" }

\* ORDER BY e.StartDate, e.Title
RowKey(r) == r.StartDate * (Len(TitleOrder) + 1) + TitleRank(r.Title)

\* sp_GetEventsForDateRange: WHERE e.VenueId = @VenueId AND e.StartDate <=
\* @EndDate AND e.EndDate >= @StartDate
sp_GetEventsForDateRange(rows, VenueId, StartDate, EndDate) ==
    LET found == SelectSeq(rows, LAMBDA r : /\ r.VenueId = VenueId
                                            /\ r.StartDate <= EndDate
                                            /\ r.EndDate >= StartDate)
    IN  SortByKey(found, [i \in 1..Len(found) |-> RowKey(found[i])])

\* mapRowToEvent
mapRowToEvent(r) ==
    [id |-> r.EventId, title |-> r.Title, priority |-> r.PriorityCode, attendees |-> <<>>,
     startDate |-> r.StartDate, endDate |-> r.EndDate]

MapRows(rows) == [i \in 1..Len(rows) |-> mapRowToEvent(rows[i])]

\* loadAllEvents (API): the events of last year's 1 January to next year's
\* 31 December, sorted by start
ApiLoadAllEvents(rows, today) ==
    LET start == NewDate(getFullYear(today) - 1, 0, 1)
        end == NewDate(getFullYear(today) + 1, 11, 31)
    IN  SortByStartDate(MapRows(sp_GetEventsForDateRange(rows, DemoVenueId, start, end)))

\* getEventsForDate (API): the day's 00:00:00 to 23:59:59 asked of the server
ApiGetEventsForDate(rows, date) ==
    LET d0 == StartOfDay(date)
        d1 == StartOfDay(date) + LastMinute
    IN  MapRows(sp_GetEventsForDateRange(rows, DemoVenueId, d0, d1))

\* How a request to the server ends: answered, or failed (the network is
\* down, or the server answers 500 for a database error)
Answers == { "ok", "failed" }

\* Dashboard.loadEvents / Calendar.loadEvents: what they assign to their
\* events, EventStorage.loadAllEvents() of the application's implementation
\* or, when the API request is not answered (loadAllEvents returns [] for
\* an answer that is not OK, and the exception of a failed request is
\* caught), the empty list
loadAllEvents(index, records, rows, answer) ==
    IF backend = "local" THEN LsLoadAllEvents(index, records)
    ELSE IF answer = "ok" THEN ApiLoadAllEvents(rows, now) ELSE <<>>

-----------------------------------------------------------------------------
(* Dashboard and Calendar: the events of a date *)

\* Dashboard.getEventsForDate: the filter, then the sort by start
DashboardGetEventsForDate(evs, date) ==
    SortByStartDate(SelectSeq(evs, LAMBDA e : OverlapsDay(e, date)))

\* Calendar.getEventsForDate: the filter
CalendarGetEventsForDate(evs, date) ==
    SelectSeq(evs, LAMBDA e : OverlapsDay(e, date))

-----------------------------------------------------------------------------
(* The clock *)

\* Values "new Date()" takes: a month end and a leap day of the modelled
\* years, at different times of day.
Clock ==
    { NewDate(LeapYear, 0, 31) + 9 * 60,
      NewDate(LeapYear, 1, 29) + LastMinute }

\* Time passes
Tick ==
    /\ now' \in { t \in Clock : t > now }
    /\ UNCHANGED <<calendarVars, dashboardVars, storageVars, ret, configVars, pageVars>>

-----------------------------------------------------------------------------
(* Calendar component and Dashboard *)

\* Calendar.render: the grid of the displayed month
Render(cd) == getCalendarGrid(getFullYear(cd), getMonth(cd))

\* The model navigates within Years
InYears(t) == getFullYear(t) \in Years

\* No service call has returned in this step
NoRet == [op |-> "none"]

previousMonth ==
    LET cd == setMonth(currentDate, getMonth(currentDate) - 1)
    IN  /\ InYears(cd)
        /\ currentDate' = cd
        /\ calendarGrid' = Render(cd)
        /\ ret' = [op |-> "previousMonth"]
        /\ UNCHANGED <<now, calSelectedDate, calEvents, dashboardVars, storageVars, configVars, pageVars>>

nextMonth ==
    LET cd == setMonth(currentDate, getMonth(currentDate) + 1)
    IN  /\ InYears(cd)
        /\ currentDate' = cd
        /\ calendarGrid' = Render(cd)
        /\ ret' = [op |-> "nextMonth"]
        /\ UNCHANGED <<now, calSelectedDate, calEvents, dashboardVars, storageVars, configVars, pageVars>>

goToToday ==
    /\ currentDate' = now
    /\ calSelectedDate' = now
    /\ calendarGrid' = Render(now)
    /\ ret' = NoRet
    /\ UNCHANGED <<now, calEvents, dashboardVars, storageVars, configVars, pageVars>>

\* The dates of the day cells of a grid
GridDates(grid) == { grid[w][c] : w \in 1..Len(grid), c \in 1..WeekLength }

\* A click on a day cell: Calendar.handleDayClick with its render, and the
\* Dashboard's onDateSelected callback with updateEventList
handleDayClick(date) ==
    /\ date \in GridDates(calendarGrid)
    /\ calSelectedDate' = date
    /\ calendarGrid' = Render(currentDate)
    /\ selectedDate' = date
    /\ eventList' = DashboardGetEventsForDate(events, date)
    /\ ret' = NoRet
    /\ UNCHANGED <<now, currentDate, calEvents, events, stats, storageVars, configVars, pageVars>>

\* today.setHours(0, 0, 0, 0)
setHoursZero(t) == Day(t) * MinutesPerDay

\* Counting the events that start on the day of today instead of those on it
updateStats_startingToday(evs, today) ==
    [total |-> Len(evs),
     today |-> Len(SelectSeq(evs, LAMBDA e : Day(e.startDate) = Day(today))),
     upcoming |-> Len(SelectSeq(evs, LAMBDA e : e.startDate > setHoursZero(today))),
     urgent |-> Len(SelectSeq(evs, LAMBDA e : e.priority = "urgent" /\ e.startDate >= today))]

\* Dashboard.updateStats: the four counts, when new Date() returns today
updateStats(evs, today) ==
    [total |-> Len(evs),
     today |-> Len(DashboardGetEventsForDate(evs, today)),
     upcoming |-> Len(SelectSeq(evs, LAMBDA e : e.startDate > setHoursZero(today))),
     urgent |-> Len(SelectSeq(evs, LAMBDA e : e.priority = "urgent" /\ e.startDate >= today))]

\* Dashboard.showDashboardPage with evs in Dashboard.events: the page is
\* rendered with its statistics, a new Calendar is built (it loads the
\* events itself, calEvs, and renders), today is selected, the event list is
\* updated and the calendar is told to show today.
ShowDashboard(evs, calEvs) ==
    /\ events' = evs
    /\ calEvents' = calEvs
    /\ currentDate' = now
    /\ calSelectedDate' = now
    /\ calendarGrid' = Render(now)
    /\ selectedDate' = now
    /\ eventList' = DashboardGetEventsForDate(evs, now)
    /\ stats' = updateStats(evs, now)

\* The answers the requests of an operation get: the localStorage
\* implementation makes none
RequestAnswers == IF backend = "local" THEN { "ok" } ELSE Answers

\* Navigation (back) to the dashboard
showDashboardPage ==
    \E calLoad \in RequestAnswers :
        /\ ShowDashboard(events, loadAllEvents(lsIndex, lsRecords, dbEvents, calLoad))
        /\ ret' = NoRet
        /\ UNCHANGED <<now, storageVars, configVars, pageVars>>

\* The refresh button: Dashboard.refresh with loadEvents, Calendar.refresh
\* (loadEvents and render), updateEventList and updateStats
refresh ==
    \E load \in RequestAnswers, calLoad \in RequestAnswers :
        /\ events' = loadAllEvents(lsIndex, lsRecords, dbEvents, load)
        /\ calEvents' = loadAllEvents(lsIndex, lsRecords, dbEvents, calLoad)
        /\ calendarGrid' = Render(currentDate)
        /\ eventList' = DashboardGetEventsForDate(events', selectedDate)
        /\ stats' = updateStats(events', now)
        /\ ret' = [op |-> "refresh", load |-> load, calLoad |-> calLoad, threw |-> FALSE]
        /\ UNCHANGED <<now, currentDate, calSelectedDate, selectedDate, storageVars, configVars, pageVars>>

-----------------------------------------------------------------------------
(* EventStorage: saving, updating and deleting *)

\* How the two localStorage.setItem calls of updateEvent end: both store, or
\* the first throws (quota exceeded, storage disabled), or the second does
SetItemOutcomes == { "stored", "record refused", "list refused" }

\* updateEvent / updateEventsList (localStorage): the record is written
\* under the event's id, and then the id is added to the list if it is not
\* in it; an exception of setItem is thrown on
LsWriteEvent(e, setItem) ==
    /\ lsRecords' =
         IF setItem = "record refused" THEN lsRecords
         ELSE [k \in DOMAIN lsRecords \cup {e.id} |->
                 IF k = e.id THEN StringifyEvent(e) ELSE lsRecords[k]]
    /\ lsIndex' = IF e.id \in Range(lsIndex) \/ setItem # "stored"
                  THEN lsIndex ELSE Append(lsIndex, e.id)
    /\ UNCHANGED dbEvents

\* updateEvent (localStorage) in a store that accepts the writes
LsUpdateEvent(e) == LsWriteEvent(e, "stored")

\* const event = { id: uuidv4(), ...eventData }
NewEvent(id, data) ==
    [id |-> id, title |-> data.title, priority |-> data.priority,
     attendees |-> data.attendees,
     startDate |-> data.startDate, endDate |-> data.endDate]

\* saveEvent (localStorage): a new id, and updateEvent
LsSaveEvent(id, data) == LsUpdateEvent(NewEvent(id, data))

\* clearAllEvents (localStorage): the records of the listed ids are removed,
\* and the list
LsClearAllEvents ==
    /\ lsRecords' = [k \in DOMAIN lsRecords \ Range(lsIndex) |-> lsRecords[k]]
    /\ lsIndex' = <<>>
    /\ UNCHANGED dbEvents

\* deleteEvent (localStorage): the record is removed and the id filtered
\* out of the list; it returns true
LsDeleteEvent(id) ==
    /\ lsRecords' = [k \in DOMAIN lsRecords \ {id} |-> lsRecords[k]]
    /\ lsIndex' = SelectSeq(lsIndex, LAMBDA k : k # id)
    /\ UNCHANGED dbEvents

\* @EventId = NULL
NoEventId == 0

\* The codes of dbo.Priorities: the default ones (VenueId NULL) and the
\* sample venue's own
DefaultPriorityCodes == { "low", "normal", "high", "urgent", "critical" }

DemoPriorityCodes == { "vip", "standard" }

\* sp_SaveEvent's lookup of @PriorityCode: a default priority or one of the venue
ValidPriority(VenueId, code) ==
    \/ code \in DefaultPriorityCodes
    \/ VenueId = DemoVenueId /\ code \in DemoPriorityCodes

\* CONSTRAINT CK_Events_DateRange CHECK (EndDate > StartDate): the INSERT
\* or UPDATE of sp_SaveEvent fails on a row that violates it
CK_Events_DateRange(data) == data.endDate > data.startDate

\* sp_SaveEvent: whether it throws, the rows of dbo.Events afterwards and
\* the EventId it returns.  NewId is what NEWID() returns.  Attendees of a
\* row stands for the event's rows of dbo.EventAttendees: @Attendees is the
\* JSON text of an array (the server sends '[]' for none), so the rows of an
\* updated event are deleted and the names of the array inserted (names
\* without comma, quote or bracket are inserted as they are).
sp_SaveEvent(rows, EventId, VenueId, data, NewId) ==
    LET IsUpdate == /\ EventId # NoEventId
                    /\ \E i \in 1..Len(rows) : rows[i].EventId = EventId
        id == IF IsUpdate THEN EventId ELSE NewId
    IN  IF ~ValidPriority(VenueId, data.priority) \/ ~CK_Events_DateRange(data)
        THEN [threw |-> TRUE, rows |-> rows, EventId |-> NoEventId]
        ELSE IF IsUpdate
        THEN [threw |-> FALSE,
              rows |-> [i \in 1..Len(rows) |->
                          IF rows[i].EventId = EventId
                          THEN [rows[i] EXCEPT !.Title = data.title,
                                               !.StartDate = data.startDate,
                                               !.EndDate = data.endDate,
                                               !.PriorityCode = data.priority,
                                               !.Attendees = data.attendees]
                          ELSE rows[i]],
              EventId |-> id]
        ELSE [threw |-> FALSE,
              rows |-> Append(rows, [EventId |-> id, VenueId |-> VenueId,
                                     Title |-> data.title, StartDate |-> data.startDate,
                                     EndDate |-> data.endDate,
                                     PriorityCode |-> data.priority,
                                     Attendees |-> data.attendees]),
              EventId |-> id]

\* sp_DeleteEvent: whether it throws (no row deleted), and the rows afterwards
sp_DeleteEvent(rows, EventId, VenueId) ==
    LET kept == SelectSeq(rows, LAMBDA r : ~(r.EventId = EventId /\ r.VenueId = VenueId))
    IN  [threw |-> Len(kept) = Len(rows), rows |-> kept]

\* The body of POST /api/events that saveEvent (eventId absent) and
\* updateEvent send: the dates as ISO strings, which the server parses
EventPayload(eventId, data) ==
    [eventId |-> eventId, title |-> data.title, priority |-> data.priority,
     attendees |-> data.attendees,
     startDate |-> ParseDate(toISOString(data.startDate)),
     endDate |-> ParseDate(toISOString(data.endDate))]

\* POST /api/events as the client sees it: res.ok, and the rows afterwards
PostEvents(rows, VenueId, body, NewId, answer) ==
    LET r == sp_SaveEvent(rows, body.eventId, VenueId, body, NewId)
    IN  IF answer = "ok" /\ ~r.threw
        THEN [ok |-> TRUE, rows |-> r.rows, EventId |-> r.EventId]
        ELSE [ok |-> FALSE, rows |-> rows, EventId |-> NoEventId]

\* The ids of the events in the store
StoredIds ==
    IF backend = "local" THEN Range(lsIndex) \cup DOMAIN lsRecords
    ELSE { dbEvents[i].EventId : i \in 1..Len(dbEvents) }

-----------------------------------------------------------------------------
(* Dashboard: creating, updating and deleting an event *)

\* After a save, update or delete: loadEvents, and the navigation to the
\* dashboard page
LoadAndShow(load, calLoad) ==
    ShowDashboard(loadAllEvents(lsIndex', lsRecords', dbEvents', load),
                  loadAllEvents(lsIndex', lsRecords', dbEvents', calLoad))

\* The operation threw before it changed anything
Thrown(op) ==
    /\ ret' = op
    /\ UNCHANGED <<calendarVars, dashboardVars, lsIndex, lsRecords, dbEvents, issued>>

\* Dashboard.handleCreateEvent: saveEvent, loadEvents, and the navigation to
\* the dashboard page; an exception of saveEvent is thrown on
handleCreateEvent(data) ==
    /\ issued < MaxEvents
    /\ \E save \in RequestAnswers, load \in RequestAnswers, calLoad \in RequestAnswers :
          LET r == PostEvents(dbEvents, DemoVenueId, EventPayload(NoEventId, data),
                              issued + 1, save)
          IN  IF backend = "local"
              THEN /\ LsSaveEvent(issued + 1, data)
                   /\ issued' = issued + 1
                   /\ LoadAndShow(load, calLoad)
                   /\ ret' = NoRet
              ELSE IF r.ok
              THEN /\ dbEvents' = r.rows
                   /\ issued' = issued + 1
                   /\ UNCHANGED <<lsIndex, lsRecords>>
                   /\ LoadAndShow(load, calLoad)
                   /\ ret' = NoRet
              ELSE Thrown(NoRet)
    /\ UNCHANGED <<now, backend, configVars, pageVars>>

\* What the fields of the editor's form may hold: any two instants
Forms ==
    [title : Titles, startDate : Instants, endDate : Instants, priority : {"high"},
     attendees : {<<>>}]

\* EventEditorPage.collectFormData returns null, after showError, for a form
\* whose start is not before its end
FormRejected(form) == form.startDate >= form.endDate

\* EventEditorPage.handleSubmit of the form of a new event: nothing happens
\* to a rejected form; the data of another goes to onSave, which is
\* Dashboard.handleCreateEvent
handleSubmit(form) ==
    IF FormRejected(form)
    THEN /\ ret' = [op |-> "handleSubmit", rejected |-> TRUE]
         /\ UNCHANGED <<now, calendarVars, dashboardVars, storageVars, configVars, pageVars>>
    ELSE handleCreateEvent(form)

\* EventStorage.saveEvent(eventData) called directly (as createSampleEvents
\* and window.createSampleData do), with whatever its caller passes
saveEvent(eventData) ==
    /\ issued < MaxEvents
    /\ \E save \in RequestAnswers :
          LET r == PostEvents(dbEvents, DemoVenueId, EventPayload(NoEventId, eventData),
                              issued + 1, save)
          IN  IF backend = "local"
              THEN \E setItem \in SetItemOutcomes :
                     /\ LsWriteEvent(NewEvent(issued + 1, eventData), setItem)
                     /\ issued' = issued + 1
                     /\ ret' = [op |-> "saveEvent", threw |-> setItem # "stored"]
              ELSE /\ dbEvents' = r.rows
                   /\ issued' = IF r.ok THEN issued + 1 ELSE issued
                   /\ UNCHANGED <<lsIndex, lsRecords>>
                   /\ ret' = [op |-> "saveEvent", threw |-> ~r.ok]
    /\ UNCHANGED <<now, calendarVars, dashboardVars, backend, configVars, pageVars>>

\* The event the edit page hands over: the one it was opened with, with the
\* fields of the form (data); the attendees field, filled from the event by
\* populateForm, is not touched
Edited(e, data) ==
    [id |-> e.id, title |-> data.title, priority |-> data.priority,
     attendees |-> e.attendees,
     startDate |-> data.startDate, endDate |-> data.endDate]

\* Dashboard.handleUpdateEvent for an event of the list or of the calendar,
\* edited: updateEvent, loadEvents, and the navigation to the dashboard page
handleUpdateEvent(e, data) ==
    /\ e \in Range(events) \cup Range(calEvents)
    /\ \E save \in RequestAnswers, load \in RequestAnswers, calLoad \in RequestAnswers :
          LET r == PostEvents(dbEvents, DemoVenueId, EventPayload(e.id, Edited(e, data)),
                              issued + 1, save)
              op(threw) == [op |-> "handleUpdateEvent", id |-> e.id, threw |-> threw]
          IN  IF backend = "local"
              THEN /\ LsUpdateEvent(Edited(e, data))
                   /\ issued' = issued
                   /\ LoadAndShow(load, calLoad)
                   /\ ret' = op(FALSE)
              ELSE IF r.ok
              THEN /\ r.EventId = e.id \/ issued < MaxEvents
                   /\ dbEvents' = r.rows
                   /\ issued' = IF r.EventId = e.id THEN issued ELSE issued + 1
                   /\ UNCHANGED <<lsIndex, lsRecords>>
                   /\ LoadAndShow(load, calLoad)
                   /\ ret' = op(FALSE)
              ELSE Thrown(op(TRUE))
    /\ UNCHANGED <<now, backend, configVars, pageVars>>

\* Dashboard.handleDeleteEvent for the event the edit page shows:
\* deleteEvent (its result is not looked at), loadEvents, and the navigation
\* to the dashboard page.  The API deleteEvent throws when the venue cannot
\* be fetched and returns res.ok otherwise.
handleDeleteEvent(id) ==
    /\ id \in { e.id : e \in Range(events) \cup Range(calEvents) }
    /\ \E venue \in RequestAnswers, load \in RequestAnswers, calLoad \in RequestAnswers :
          LET r == sp_DeleteEvent(dbEvents, id, DemoVenueId)
              op(threw) == [op |-> "handleDeleteEvent", id |-> id, threw |-> threw]
          IN  IF backend = "local"
              THEN /\ LsDeleteEvent(id)
                   /\ LoadAndShow(load, calLoad)
                   /\ ret' = op(FALSE)
              ELSE IF venue = "ok"
              THEN /\ dbEvents' = r.rows
                   /\ UNCHANGED <<lsIndex, lsRecords>>
                   /\ LoadAndShow(load, calLoad)
                   /\ ret' = op(FALSE)
              ELSE Thrown(op(TRUE))
    /\ UNCHANGED <<now, backend, issued, configVars, pageVars>>

\* EventStorage.deleteEvent(id) called elsewhere (another tab of the
\* browser, another client of the venue): the store changes, this
\* Dashboard does not
deleteEventElsewhere(id) ==
    /\ id \in StoredIds
    /\ IF backend = "local" THEN LsDeleteEvent(id)
       ELSE /\ dbEvents' = sp_DeleteEvent(dbEvents, id, DemoVenueId).rows
            /\ UNCHANGED <<lsIndex, lsRecords>>
    /\ ret' = NoRet
    /\ UNCHANGED <<now, calendarVars, dashboardVars, backend, issued, configVars, pageVars>>

\* EventStorage.updateEvent(event) called directly, for a stored event
\* with other dates
updateEvent(event) ==
    /\ \E save \in RequestAnswers :
          LET r == PostEvents(dbEvents, DemoVenueId, EventPayload(event.id, event),
                              issued + 1, save)
          IN  IF backend = "local"
              THEN \E setItem \in SetItemOutcomes :
                     /\ LsWriteEvent(event, setItem)
                     /\ ret' = [op |-> "updateEvent", threw |-> setItem # "stored"]
              ELSE /\ dbEvents' = r.rows
                   /\ UNCHANGED <<lsIndex, lsRecords>>
                   /\ ret' = [op |-> "updateEvent", threw |-> ~r.ok]
    /\ UNCHANGED <<now, calendarVars, dashboardVars, backend, issued, configVars, pageVars>>

\* EventStorage.clearAllEvents(); the API one does nothing and returns true
clearAllEvents ==
    /\ IF backend = "local" THEN LsClearAllEvents
       ELSE UNCHANGED <<lsIndex, lsRecords, dbEvents>>
    /\ ret' = [op |-> "clearAllEvents", value |-> TRUE]
    /\ UNCHANGED <<now, calendarVars, dashboardVars, backend, issued, configVars, pageVars>>

-----------------------------------------------------------------------------
(* The server's event endpoints, as any client of a venue may call them *)

\* POST /api/events with venueId, an optional eventId (NoEventId: none) and
\* the fields of the event: sp_SaveEvent
apiPostEvents(venueId, eventId, data) ==
    LET r == sp_SaveEvent(dbEvents, eventId, venueId, data, issued + 1)
        created == ~r.threw /\ r.EventId # eventId
    IN  /\ backend = "api"
        /\ created => issued < MaxEvents
        /\ dbEvents' = r.rows
        /\ issued' = IF created THEN issued + 1 ELSE issued
        /\ ret' = [op |-> "sp_SaveEvent", VenueId |-> venueId, EventId |-> eventId,
                   threw |-> r.threw, value |-> r.EventId]
        /\ UNCHANGED <<now, calendarVars, dashboardVars, backend, lsIndex, lsRecords,
                       configVars, pageVars>>

\* DELETE /api/events/:id?venueId=...: sp_DeleteEvent
apiDeleteEvents(venueId, eventId) ==
    LET r == sp_DeleteEvent(dbEvents, eventId, venueId)
    IN  /\ backend = "api"
        /\ dbEvents' = r.rows
        /\ ret' = [op |-> "sp_DeleteEvent", VenueId |-> venueId, EventId |-> eventId,
                   threw |-> r.threw]
        /\ UNCHANGED <<now, calendarVars, dashboardVars, backend, lsIndex, lsRecords,
                       issued, configVars, pageVars>>

\* GET /api/events?venueId=...&start=...&end=...: sp_GetEventsForDateRange
apiGetEvents(venueId, start, end) ==
    /\ backend = "api"
    /\ ret' = [op |-> "sp_GetEventsForDateRange", VenueId |-> venueId,
               value |-> sp_GetEventsForDateRange(dbEvents, venueId, start, end)]
    /\ UNCHANGED <<now, calendarVars, dashboardVars, storageVars, configVars, pageVars>>

\* EventStorage.getEventsForDate(date); the API one returns [] for an
\* answer that is not OK
getEventsForDate(date) ==
    /\ \E answer \in RequestAnswers :
          ret' = [op |-> "getEventsForDate", date |-> date,
                  value |-> IF backend = "local"
                            THEN LsGetEventsForDate(lsIndex, lsRecords, date)
                            ELSE IF answer = "ok"
                                 THEN ApiGetEventsForDate(dbEvents, date)
                                 ELSE <<>>]
    /\ UNCHANGED <<now, calendarVars, dashboardVars, storageVars, configVars, pageVars>>

-----------------------------------------------------------------------------
(* JavaScript values of the configuration, and JSON text *)

Null == [null |-> TRUE]

Undefined == [undefined |-> TRUE]

\* The number NaN (parseFloat('') and parseInt('') return it)
NaN == [nan |-> TRUE]

Str(s) == [str |-> s]

Num(n) == [num |-> n]

List(q) == [list |-> q]

Obj(f) == [obj |-> f]

IsStr(v) == DOMAIN v = {"str"}

IsNum(v) == DOMAIN v = {"num"}

IsList(v) == DOMAIN v = {"list"}

IsObj(v) == DOMAIN v = {"obj"}

\* !!v
Truthy(v) == v \notin { Null, Undefined, NaN, Str(""), Num(0) }

\* An object without properties
EmptyObject == [k \in {} |-> Null]

\* o.k
Get(o, k) == IF k \in DOMAIN o THEN o[k] ELSE Undefined

\* The property name of the element at position i (1-based) of an array
IndexKey(i) == <<"0", "1", "2", "3", "4", "5", "6", "7">>[i]

IndexedProperties(seq) ==
    [k \in { IndexKey(i) : i \in 1..Len(seq) } |->
        seq[CHOOSE i \in 1..Len(seq) : IndexKey(i) = k]]

\* The characters of a string (the strings the model spreads have at most one)
Characters(str) == IF str = "" THEN <<>> ELSE <<Str(str)>>

\* The own enumerable properties an object spread {...v} copies: those of an
\* object, the elements of an array and the characters of a string under
\* their indices, none of a number, null or undefined.
OwnProperties(v) ==
    CASE IsObj(v) -> v.obj
      [] IsList(v) -> IndexedProperties(v.list)
      [] IsStr(v) -> IndexedProperties(Characters(v.str))
      [] OTHER -> EmptyObject

\* A merge that appends an array of v to the array a holds
Spread_appending(a, v) ==
    [k \in DOMAIN a \cup DOMAIN OwnProperties(v) |->
        IF k \in DOMAIN OwnProperties(v)
        THEN IF k \in DOMAIN a /\ IsList(a[k]) /\ IsList(OwnProperties(v)[k])
             THEN List(a[k].list \o OwnProperties(v)[k].list)
             ELSE OwnProperties(v)[k]
        ELSE a[k]]

\* A merge that merges an object of v into the object a holds
Spread_deep(a, v) ==
    [k \in DOMAIN a \cup DOMAIN OwnProperties(v) |->
        IF k \in DOMAIN OwnProperties(v)
        THEN IF k \in DOMAIN a /\ IsObj(a[k]) /\ IsObj(OwnProperties(v)[k])
             THEN Obj([f \in DOMAIN a[k].obj \cup DOMAIN OwnProperties(v)[k].obj |->
                         IF f \in DOMAIN OwnProperties(v)[k].obj
                         THEN OwnProperties(v)[k].obj[f] ELSE a[k].obj[f]])
             ELSE OwnProperties(v)[k]
        ELSE a[k]]

\* { ...a, ...v } for the properties a and a value v
Spread(a, v) ==
    [k \in DOMAIN a \cup DOMAIN OwnProperties(v) |->
        IF k \in DOMAIN OwnProperties(v) THEN OwnProperties(v)[k] ELSE a[k]]

\* The value a JSON text of v describes: NaN is written as null, and a
\* property of an object whose value is undefined is left out.
ToJSON(v) ==
    IF v = NaN THEN Null
    ELSE IF IsObj(v)
         THEN Obj([k \in { k \in DOMAIN v.obj : v.obj[k] # Undefined } |->
                     IF v.obj[k] = NaN THEN Null ELSE v.obj[k]])
         ELSE v

\* A text is a JSON document of a value, or is not JSON at all
JSON_stringify(v) == [json |-> ToJSON(v)]

NotJson == [garbage |-> TRUE]

\* JSON.parse(text) throws a SyntaxError
ParseThrows(text) == "json" \notin DOMAIN text

\* JSON.parse(text)
JSON_parse(text) == text.json

-----------------------------------------------------------------------------
(* VenueConfig: the fields of the configuration that are modelled *)

Category(id, name, color, isActive) ==
    [id |-> id, name |-> name, color |-> color, isActive |-> isActive]

Priority(id, name, color, level, isActive) ==
    [id |-> id, name |-> name, color |-> color, level |-> level, isActive |-> isActive]

Location(id, name, isActive) == [id |-> id, name |-> name, isActive |-> isActive]

DEFAULT_CONFIG ==
    [companyName |-> Str("Event Planner"),
     locations |->
        List(<< Location("main-hall", "Main Hall", TRUE),
                Location("meeting-room-a", "Meeting Room A", TRUE),
                Location("meeting-room-b", "Meeting Room B", TRUE),
                Location("outdoor-space", "Outdoor Patio", TRUE),
                Location("virtual", "Virtual/Online", TRUE) >>),
     customCategories |->
        List(<< Category("training", "Training", "#10b981", TRUE),
                Category("workshop", "Workshop", "#f59e0b", TRUE),
                Category("conference", "Conference", "#3b82f6", TRUE) >>),
     customPriorities |->
        List(<< Priority("critical", "Critical", "#dc2626", 10, TRUE),
                Priority("important", "Important", "#f59e0b", 7, TRUE),
                Priority("normal", "Normal", "#6b7280", 5, TRUE),
                Priority("low", "Low", "#10b981", 2, TRUE) >>),
     firstDayOfWeek |-> Num(0),
     defaultEventDuration |-> Num(1),
     features |->
        Obj([showAttendees |-> TRUE, showLocation |-> TRUE, showDescription |-> TRUE,
             allowRecurring |-> FALSE, allowFileAttachments |-> FALSE])]

\* const defaultCategories = [...]
defaultCategories ==
    << [id |-> "meeting", name |-> "Meeting", color |-> "#3b82f6"],
       [id |-> "personal", name |-> "Personal", color |-> "#10b981"],
       [id |-> "work", name |-> "Work", color |-> "#f59e0b"],
       [id |-> "other", name |-> "Other", color |-> "#6b7280"] >>

\* const defaultPriorities = [...]
defaultPriorities ==
    << [id |-> "high", name |-> "High", color |-> "#ef4444"],
       [id |-> "medium", name |-> "Medium", color |-> "#f59e0b"],
       [id |-> "low", name |-> "Low", color |-> "#10b981"] >>

\* list || []
OrEmpty(v) == IF IsList(v) THEN v.list ELSE <<>>

\* entry.isActive
IsActive(entry) == "isActive" \in DOMAIN entry /\ entry.isActive = TRUE

\* entry => ({ id: entry.id, name: entry.name, color: entry.color })
IdNameColor(entry) == [id |-> entry.id, name |-> entry.name, color |-> entry.color]

-----------------------------------------------------------------------------
(* ConfigService on localStorage *)

\* loadConfig(): the defaults, overlaid with what is stored if it parses
LocalLoadConfig(stored) ==
    IF stored = Null \/ ParseThrows(stored) THEN DEFAULT_CONFIG
    ELSE Spread(DEFAULT_CONFIG, JSON_parse(stored))

\* saveConfig(): localStorage.setItem may throw (quota exceeded, storage
\* disabled); the exception is caught and logged.  The item afterwards:
LocalSaveConfig(cfg, stored) == IF stored THEN JSON_stringify(Obj(cfg)) ELSE lsItem

\* getAllCategories()
LocalGetAllCategories(cfg) ==
    LET active == SelectSeq(OrEmpty(Get(cfg, "customCategories")), IsActive)
    IN  defaultCategories \o [i \in 1..Len(active) |-> IdNameColor(active[i])]

\* this.config.customPriorities?.find(p => p.id === id)?.level || 5
LevelOrFive(list, id) ==
    LET at == { i \in 1..Len(list) : list[i].id = id }
        first == CHOOSE i \in at : \A j \in at : i <= j
    IN  IF at = {} \/ "level" \notin DOMAIN list[first] \/ list[first].level = 0
        THEN 5
        ELSE list[first].level

\* getAllPriorities(): the active ones, mapped, sorted by level descending
LocalGetAllPriorities(cfg) ==
    LET list == OrEmpty(Get(cfg, "customPriorities"))
        active == SelectSeq(list, IsActive)
        mapped == [i \in 1..Len(active) |-> IdNameColor(active[i])]
    IN  defaultPriorities
          \o SortByKey(mapped, [i \in 1..Len(mapped) |-> 0 - LevelOrFive(list, mapped[i].id)])

-----------------------------------------------------------------------------
(* ConfigService on the REST API, and the server behind it *)

\* What sp_GetVenueCategories returns for the sample venue: the default
\* categories by SortOrder, then the venue's own active ones
DbCategories ==
    << [CategoryCode |-> "meeting", CategoryName |-> "Meeting", Color |-> "#3b82f6", IsDefault |-> 1],
       [CategoryCode |-> "personal", CategoryName |-> "Personal", Color |-> "#10b981", IsDefault |-> 1],
       [CategoryCode |-> "work", CategoryName |-> "Work", Color |-> "#f59e0b", IsDefault |-> 1],
       [CategoryCode |-> "social", CategoryName |-> "Social", Color |-> "#8b5cf6", IsDefault |-> 1],
       [CategoryCode |-> "holiday", CategoryName |-> "Holiday", Color |-> "#ef4444", IsDefault |-> 1],
       [CategoryCode |-> "appointment", CategoryName |-> "Appointment", Color |-> "#06b6d4", IsDefault |-> 1],
       [CategoryCode |-> "training", CategoryName |-> "Training", Color |-> "#84cc16", IsDefault |-> 1],
       [CategoryCode |-> "conference", CategoryName |-> "Conference", Color |-> "#6366f1", IsDefault |-> 1],
       [CategoryCode |-> "workshop", CategoryName |-> "Workshop", Color |-> "#f97316", IsDefault |-> 1],
       [CategoryCode |-> "other", CategoryName |-> "Other", Color |-> "#6b7280", IsDefault |-> 1],
       [CategoryCode |-> "wedding", CategoryName |-> "Wedding", Color |-> "#ec4899", IsDefault |-> 0],
       [CategoryCode |-> "corporate-event", CategoryName |-> "Corporate Event", Color |-> "#0ea5e9", IsDefault |-> 0],
       [CategoryCode |-> "fundraiser", CategoryName |-> "Fundraiser", Color |-> "#22c55e", IsDefault |-> 0] >>

\* What sp_GetVenuePriorities returns for the sample venue: by Level
\* descending, then by name
DbPriorities ==
    << [PriorityCode |-> "critical", PriorityName |-> "Critical", Color |-> "#dc2626", Level |-> 10, IsDefault |-> 1],
       [PriorityCode |-> "vip", PriorityName |-> "VIP Event", Color |-> "#dc2626", Level |-> 10, IsDefault |-> 0],
       [PriorityCode |-> "urgent", PriorityName |-> "Urgent", Color |-> "#ef4444", Level |-> 9, IsDefault |-> 1],
       [PriorityCode |-> "high", PriorityName |-> "High", Color |-> "#f59e0b", Level |-> 7, IsDefault |-> 1],
       [PriorityCode |-> "normal", PriorityName |-> "Normal", Color |-> "#6b7280", Level |-> 5, IsDefault |-> 1],
       [PriorityCode |-> "standard", PriorityName |-> "Standard", Color |-> "#3b82f6", Level |-> 5, IsDefault |-> 0],
       [PriorityCode |-> "low", PriorityName |-> "Low", Color |-> "#10b981", Level |-> 2, IsDefault |-> 1] >>

\* What sp_GetVenueLocations returns for the sample venue: by SortOrder
\* (0 for all of them), then by name.  LocationId is a NEWID().
DbLocations ==
    << [LocationId |-> "id-of-breakout-room-1", LocationName |-> "Breakout Room 1"],
       [LocationId |-> "id-of-breakout-room-2", LocationName |-> "Breakout Room 2"],
       [LocationId |-> "id-of-conference-room-a", LocationName |-> "Conference Room A"],
       [LocationId |-> "id-of-conference-room-b", LocationName |-> "Conference Room B"],
       [LocationId |-> "id-of-grand-ballroom", LocationName |-> "Grand Ballroom"],
       [LocationId |-> "id-of-outdoor-pavilion", LocationName |-> "Outdoor Pavilion"],
       [LocationId |-> "id-of-virtual-online", LocationName |-> "Virtual/Online"] >>

\* The sample venue's row of dbo.VenueConfigurations
DemoConfiguration ==
    [CompanyName |-> "Demo Convention Center", FirstDayOfWeek |-> 0,
     DefaultEventDuration |-> 1,
     ShowAttendees |-> 1, ShowLocation |-> 1, ShowDescription |-> 1,
     AllowRecurring |-> 0, AllowFileAttachments |-> 0]

\* The lists ensureLoaded() builds from the rows of the three list requests
LoadedLocations(locs) ==
    [i \in 1..Len(locs) |-> Location(locs[i].LocationId, locs[i].LocationName, TRUE)]

LoadedCategories(cats) ==
    [i \in 1..Len(cats) |->
       Category(cats[i].CategoryCode, cats[i].CategoryName, cats[i].Color, TRUE)]

LoadedPriorities(prios) ==
    [i \in 1..Len(prios) |->
       Priority(prios[i].PriorityCode, prios[i].PriorityName, prios[i].Color,
                prios[i].Level, TRUE)]

\* this.config as ensureLoaded() assigns it from the row r, before the lists
\* are requested, then with the lists locs, cats and prios
ApiConfigWith(r, locs, cats, prios) ==
    [companyName |-> Str(r.CompanyName),
     locations |-> List(LoadedLocations(locs)),
     customCategories |-> List(LoadedCategories(cats)),
     customPriorities |-> List(LoadedPriorities(prios)),
     firstDayOfWeek |-> Num(r.FirstDayOfWeek),
     defaultEventDuration |-> Num(r.DefaultEventDuration),
     features |->
        Obj([showAttendees |-> r.ShowAttendees # 0, showLocation |-> r.ShowLocation # 0,
             showDescription |-> r.ShowDescription # 0, allowRecurring |-> r.AllowRecurring # 0,
             allowFileAttachments |-> r.AllowFileAttachments # 0])]

\* ensureLoaded(), when every request is answered: the configuration built
\* from the row r and the lists
ApiLoadedConfig(r) == ApiConfigWith(r, DbLocations, DbCategories, DbPriorities)

\* ensureLoaded(): this.config afterwards
EnsureLoaded(cfg, answer) ==
    IF cfg # Null THEN cfg
    ELSE IF answer = "ok" THEN ApiLoadedConfig(dbConfig) ELSE Null

\* merged.features.<flag> ? 1 : 0 as the server stores it
FeatureBit(merged, flag) ==
    IF IsObj(Get(merged, "features")) /\ flag \in DOMAIN Get(merged, "features").obj
          /\ Get(merged, "features").obj[flag] = TRUE
    THEN 1 ELSE 0

\* Reading merged.features.showAttendees throws a TypeError
PayloadThrows(merged) == Get(merged, "features") \in { Null, Undefined }

\* value ?? fallback of a number the payload carried as JSON (NaN and
\* undefined arrive as null or not at all)
NumberOr(v, fallback) == IF IsNum(v) THEN v.num ELSE fallback

\* PUT /api/config answers 400 without a company name, and the driver
\* refuses a first day of the week or a duration that is not a number
ServerAccepts(merged) ==
    /\ Truthy(Get(merged, "companyName"))
    /\ IsStr(Get(merged, "companyName"))
    /\ \/ Get(merged, "firstDayOfWeek") \in { Null, Undefined, NaN }
       \/ IsNum(Get(merged, "firstDayOfWeek"))
    /\ \/ Get(merged, "defaultEventDuration") \in { Null, Undefined, NaN }
       \/ IsNum(Get(merged, "defaultEventDuration"))

\* sp_UpdateVenueConfiguration: the row afterwards
UpdatedConfiguration(merged) ==
    [CompanyName |-> Get(merged, "companyName").str,
     FirstDayOfWeek |-> NumberOr(Get(merged, "firstDayOfWeek"), 0),
     DefaultEventDuration |-> NumberOr(Get(merged, "defaultEventDuration"), 1),
     ShowAttendees |-> FeatureBit(merged, "showAttendees"),
     ShowLocation |-> FeatureBit(merged, "showLocation"),
     ShowDescription |-> FeatureBit(merged, "showDescription"),
     AllowRecurring |-> FeatureBit(merged, "allowRecurring"),
     AllowFileAttachments |-> FeatureBit(merged, "allowFileAttachments")]

\* updateConfig(updates) of the API service: whether it returns (it throws
\* otherwise), and this.config and the row afterwards
ApiUpdateConfig(updates, load, put) ==
    LET cur == EnsureLoaded(config, load)
        merged == Spread(cur, updates)
        done == /\ cur # Null
                /\ ~PayloadThrows(merged)
                /\ put = "ok"
                /\ ServerAccepts(merged)
    IN  [returned |-> done,
         config |-> IF done THEN merged ELSE cur,
         row |-> IF done THEN UpdatedConfiguration(merged) ELSE dbConfig]

\* list.sort((a, b) => b.level - a.level)
SortByLevelDescending(list) == SortByKey(list, [i \in 1..Len(list) |-> 0 - list[i].level])

-----------------------------------------------------------------------------
(* ConfigPage.config.  getConfig() returns { ...this.config }: a new object
   whose three arrays, and the entries in them, are the service's own.
   page.alias tells, for each list, what the page's list still shares with
   the service's: "array" (the array itself, so the two lists are one),
   "entries" (the page has an array of its own that holds the service's
   entry objects) or "own" (nothing). *)

ListFields == { "locations", "customCategories", "customPriorities" }

ItemTypes == { "location", "category", "priority" }

\* The list a data-type stands for
ListField(type) ==
    CASE type = "location" -> "locations"
      [] type = "category" -> "customCategories"
      [] type = "priority" -> "customPriorities"

\* No configuration page is shown; n ids have been given to new entries
ClosedPage(n) ==
    [open |-> FALSE, config |-> Null, alias |-> [f \in ListFields |-> "own"], stamp |-> n]

\* this.config = await this.configService.getConfig()
OpenedPage(cfg, n) ==
    [open |-> TRUE, config |-> cfg, alias |-> [f \in ListFields |-> "array"], stamp |-> n]

\* The service has put other arrays into the given fields of its
\* configuration: the page shares them no longer
Unshared(fields) ==
    [page EXCEPT !.alias = [f \in ListFields |->
                              IF f \in fields THEN "own" ELSE page.alias[f]]]

\* The fields of an object that are lists of the configuration
ListsIn(updates) == (DOMAIN OwnProperties(updates)) \cap ListFields

\* The page's configuration with the list of field f being list
WithList(cfg, f, list) ==
    [k \in DOMAIN cfg \cup {f} |-> IF k = f THEN List(list) ELSE cfg[k]]

\* entry.isActive = !entry.isActive
Flipped(entry) ==
    [k \in DOMAIN entry \cup {"isActive"} |->
       IF k = "isActive" THEN ~IsActive(entry) ELSE entry[k]]

\* A toggle that flips every entry: not what the page does
Toggled_every(list, id) == [i \in 1..Len(list) |-> Flipped(list[i])]

\* const x = list.find(x => x.id === id); if (x) x.isActive = !x.isActive
Toggled(list, id) ==
    LET at == { i \in 1..Len(list) : list[i].id = id }
        first == CHOOSE i \in at : \A j \in at : i <= j
    IN  IF at = {} THEN list ELSE [list EXCEPT ![first] = Flipped(list[first])]

\* A removal that keeps the entries after the one removed in reverse order:
\* not what the page does
Filtered_reordered(list, id) ==
    LET kept == SelectSeq(list, LAMBDA x : x.id # id)
    IN  IF Len(kept) = Len(list) THEN list
        ELSE [i \in 1..Len(kept) |-> kept[Len(kept) + 1 - i]]

\* list.filter(x => x.id !== id)
Filtered(list, id) == SelectSeq(list, LAMBDA x : x.id # id)

-----------------------------------------------------------------------------
(* ConfigService: the operations *)

\* The call repeats the one before it: the same updates, which were applied
Repeats(updates) == ret.op = "updateConfig" /\ ~ret.threw /\ ret.updates = updates

updateConfig(updates) ==
    /\ IF backend = "local"
       THEN \E stored \in BOOLEAN :
              /\ config' = Spread(config, updates)
              /\ lsItem' = LocalSaveConfig(config', stored)
              /\ dbConfig' = dbConfig
              /\ ret' = [op |-> "updateConfig", updates |-> updates, threw |-> FALSE,
                         persisted |-> stored, repeated |-> Repeats(updates)]
              /\ page' = Unshared(ListsIn(updates))
       ELSE \E load \in Answers, put \in Answers :
              LET r == ApiUpdateConfig(updates, load, put)
              IN  /\ config' = r.config
                  /\ dbConfig' = r.row
                  /\ lsItem' = lsItem
                  /\ ret' = [op |-> "updateConfig", updates |-> updates,
                             threw |-> ~r.returned, persisted |-> r.returned,
                             repeated |-> Repeats(updates)]
                  /\ page' = IF r.returned THEN Unshared(ListsIn(updates)) ELSE page
    /\ UNCHANGED <<now, calendarVars, dashboardVars, storageVars, loads>>

importConfig(jsonString) ==
    /\ IF backend = "local"
       THEN IF ~ParseThrows(jsonString) /\ Truthy(JSON_parse(jsonString))
                /\ (IsObj(JSON_parse(jsonString)) \/ IsList(JSON_parse(jsonString)))
            THEN \E stored \in BOOLEAN :
                   /\ config' = Spread(DEFAULT_CONFIG, JSON_parse(jsonString))
                   /\ lsItem' = LocalSaveConfig(config', stored)
                   /\ dbConfig' = dbConfig
                   /\ ret' = [op |-> "importConfig", text |-> jsonString,
                              answered |-> TRUE, value |-> TRUE]
                   /\ page' = Unshared(ListFields)
            ELSE /\ ret' = [op |-> "importConfig", text |-> jsonString,
                            answered |-> TRUE, value |-> FALSE]
                 /\ UNCHANGED <<configVars, page>>
       ELSE IF ParseThrows(jsonString)
            THEN /\ ret' = [op |-> "importConfig", text |-> jsonString,
                            answered |-> TRUE, value |-> FALSE]
                 /\ UNCHANGED <<configVars, page>>
            ELSE \E load \in Answers, put \in Answers :
                   LET r == ApiUpdateConfig(JSON_parse(jsonString), load, put)
                   IN  /\ config' = r.config
                       /\ dbConfig' = r.row
                       /\ lsItem' = lsItem
                       /\ ret' = [op |-> "importConfig", text |-> jsonString,
                                  answered |-> (load = "ok" /\ put = "ok"),
                                  value |-> r.returned]
                       /\ page' = IF r.returned
                                  THEN Unshared(ListsIn(JSON_parse(jsonString)))
                                  ELSE page
    /\ UNCHANGED <<now, calendarVars, dashboardVars, storageVars, loads>>

\* exportConfig(): the text of the configuration in memory
exportConfig ==
    /\ IF backend = "local"
       THEN /\ ret' = [op |-> "exportConfig", threw |-> FALSE,
                       value |-> JSON_stringify(Obj(config))]
            /\ config' = config
       ELSE \E load \in Answers :
              LET cfg == EnsureLoaded(config, load)
              IN  /\ config' = cfg
                  /\ ret' = IF cfg = Null
                            THEN [op |-> "exportConfig", threw |-> TRUE]
                            ELSE [op |-> "exportConfig", threw |-> FALSE,
                                  value |-> JSON_stringify(Obj(cfg))]
    /\ UNCHANGED <<now, calendarVars, dashboardVars, storageVars, lsItem, dbConfig, pageVars>>

\* The file the user gives to the import: one exported just before
ExportedTexts == IF ret.op = "exportConfig" /\ ~ret.threw THEN { ret.value } ELSE {}

getAllCategories ==
    /\ IF backend = "local"
       THEN /\ ret' = [op |-> "getAllCategories", threw |-> FALSE,
                       value |-> LocalGetAllCategories(config)]
            /\ config' = config
       ELSE \E load \in Answers :
              LET cfg == EnsureLoaded(config, load)
              IN  /\ config' = cfg
                  /\ ret' = IF cfg = Null
                            THEN [op |-> "getAllCategories", threw |-> TRUE]
                            ELSE [op |-> "getAllCategories", threw |-> FALSE,
                                  value |-> defaultCategories
                                              \o OrEmpty(Get(cfg, "customCategories"))]
    /\ UNCHANGED <<now, calendarVars, dashboardVars, storageVars, lsItem, dbConfig, pageVars>>

\* The API service sorts cfg.customPriorities, the array this.config holds
\* too (getConfig() copies the object, not its arrays), in place.
getAllPriorities ==
    /\ IF backend = "local"
       THEN /\ ret' = [op |-> "getAllPriorities", threw |-> FALSE,
                       value |-> LocalGetAllPriorities(config)]
            /\ config' = config
            /\ page' = page
       ELSE \E load \in Answers :
              LET cfg == EnsureLoaded(config, load)
                  custom == SortByLevelDescending(OrEmpty(Get(cfg, "customPriorities")))
              IN  IF cfg = Null
                  THEN /\ config' = cfg
                       /\ page' = page
                       /\ ret' = [op |-> "getAllPriorities", threw |-> TRUE]
                  ELSE /\ config' = IF IsList(Get(cfg, "customPriorities"))
                                    THEN [cfg EXCEPT !.customPriorities = List(custom)]
                                    ELSE cfg
                       /\ page' = IF page.alias["customPriorities"] = "array"
                                  THEN [page EXCEPT !.config =
                                          WithList(page.config, "customPriorities", custom)]
                                  ELSE page
                       /\ ret' = [op |-> "getAllPriorities", threw |-> FALSE,
                                  value |-> defaultPriorities \o custom]
    /\ UNCHANGED <<now, calendarVars, dashboardVars, storageVars, lsItem, dbConfig, loads>>

\* getConfig(): { ...this.config }
getConfig ==
    /\ \E load \in RequestAnswers :
          LET cfg == IF backend = "local" THEN config ELSE EnsureLoaded(config, load)
          IN  /\ config' = cfg
              /\ ret' = IF cfg = Null
                        THEN [op |-> "getConfig", threw |-> TRUE]
                        ELSE [op |-> "getConfig", threw |-> FALSE, value |-> cfg]
    /\ UNCHANGED <<now, calendarVars, dashboardVars, storageVars, lsItem, dbConfig, pageVars>>

-----------------------------------------------------------------------------
(* ensureLoaded() of the API service, await by await.  A call that finds no
   configuration requests the venue's row; when the row arrives it assigns
   this.config, with empty lists, and requests the three lists; when they
   arrive it assigns the lists.  Other calls run between the steps. *)

\* The methods that await ensureLoaded() and return what they read
LoadCallers == { "getConfig", "getActiveLocations", "getAllCategories", "getAllPriorities" }

\* How many calls wait for an answer at the same time
MaxLoads == 2

\* How the three list requests end: answered with the rows, answered with a
\* status that is not OK (the list is then []), or not answered (fetch
\* throws)
ListAnswers == { "ok", "refused", "failed" }

\* What the method returns once ensureLoaded() has returned, cfg being
\* this.config
CallerValue(op, cfg) ==
    CASE op = "getConfig" -> cfg
      [] op = "getActiveLocations" -> SelectSeq(OrEmpty(Get(cfg, "locations")), IsActive)
      [] op = "getAllCategories" -> defaultCategories \o OrEmpty(Get(cfg, "customCategories"))
      [] op = "getAllPriorities" ->
           defaultPriorities \o SortByLevelDescending(OrEmpty(Get(cfg, "customPriorities")))

\* this.config once the method has returned: getAllPriorities has sorted
\* the array of the priorities
CallerLeaves(op, cfg) ==
    IF op = "getAllPriorities" /\ IsList(Get(cfg, "customPriorities"))
    THEN WithList(cfg, "customPriorities",
                  SortByLevelDescending(OrEmpty(Get(cfg, "customPriorities"))))
    ELSE cfg

RemoveAt(seq, i) == SubSeq(seq, 1, i - 1) \o SubSeq(seq, i + 1, Len(seq))

\* A method is called: if (this.config) return, and the method returns
\* what it reads; otherwise the venue's row is requested
callLoading(op) ==
    /\ backend = "api"
    /\ IF config # Null
       THEN /\ ret' = [op |-> op, threw |-> FALSE, value |-> CallerValue(op, config)]
            /\ config' = CallerLeaves(op, config)
            /\ loads' = loads
       ELSE /\ Len(loads) < MaxLoads
            /\ loads' = Append(loads, [op |-> op, stage |-> "config"])
            /\ UNCHANGED <<ret, config>>
    /\ UNCHANGED <<now, calendarVars, dashboardVars, storageVars, lsItem, dbConfig, page>>

\* The request of the venue's row of the i-th waiting call is answered:
\* this.config = { ..., locations: [], customCategories: [],
\* customPriorities: [], ... } and the lists are requested; or it throws
configAnswered(i, answer) ==
    /\ i \in 1..Len(loads)
    /\ loads[i].stage = "config"
    /\ IF answer = "ok"
       THEN /\ config' = ApiConfigWith(dbConfig, <<>>, <<>>, <<>>)
            /\ loads' = [loads EXCEPT ![i].stage = "lists"]
            /\ page' = Unshared(ListFields)
            /\ ret' = ret
       ELSE /\ loads' = RemoveAt(loads, i)
            /\ ret' = [op |-> loads[i].op, threw |-> TRUE]
            /\ UNCHANGED <<config, page>>
    /\ UNCHANGED <<now, calendarVars, dashboardVars, storageVars, lsItem, dbConfig>>

\* The list requests of the i-th waiting call are answered: the lists are
\* assigned to this.config and the method returns what it reads; or
\* Promise.all rejects and the method throws
listsAnswered(i, answer) ==
    /\ i \in 1..Len(loads)
    /\ loads[i].stage = "lists"
    /\ loads' = RemoveAt(loads, i)
    /\ IF answer = "failed"
       THEN /\ ret' = [op |-> loads[i].op, threw |-> TRUE]
            /\ UNCHANGED <<config, page>>
       ELSE LET rows(all) == IF answer = "ok" THEN all ELSE <<>>
                cfg == [config EXCEPT
                          !.locations = List(LoadedLocations(rows(DbLocations))),
                          !.customCategories = List(LoadedCategories(rows(DbCategories))),
                          !.customPriorities = List(LoadedPriorities(rows(DbPriorities)))]
            IN  /\ ret' = [op |-> loads[i].op, threw |-> FALSE,
                           value |-> CallerValue(loads[i].op, cfg)]
                /\ config' = CallerLeaves(loads[i].op, cfg)
                /\ page' = Unshared(ListFields)
    /\ UNCHANGED <<now, calendarVars, dashboardVars, storageVars, lsItem, dbConfig>>

-----------------------------------------------------------------------------
(* ConfigPage *)

\* render(): this.config = await this.configService.getConfig(), and the
\* three lists are shown with the buttons of every entry
render ==
    /\ \E load \in RequestAnswers :
          LET cfg == IF backend = "local" THEN config ELSE EnsureLoaded(config, load)
          IN  /\ config' = cfg
              /\ page' = IF cfg = Null THEN page ELSE OpenedPage(cfg, page.stamp)
              /\ ret' = [op |-> "render", threw |-> cfg = Null]
    /\ UNCHANGED <<now, calendarVars, dashboardVars, storageVars, lsItem, dbConfig, loads>>

\* How many entries are added to the lists of a page
MaxAdds == 1

\* 'location-' + Date.now(), 'category-' + Date.now(), 'priority-' + Date.now()
NewItemId(type, n) ==
    CASE type = "location" -> << "location-1", "location-2", "location-3" >>[n]
      [] type = "category" -> << "category-1", "category-2", "category-3" >>[n]
      [] type = "priority" -> << "priority-1", "priority-2", "priority-3" >>[n]

\* const newLocation = {...}, newCategory = {...}, newPriority = {...}
NewEntry(type, id, name, level) ==
    CASE type = "location" -> Location(id, name, TRUE)
      [] type = "category" -> Category(id, name, "#6b7280", TRUE)
      [] type = "priority" -> Priority(id, name, "#6b7280", level, TRUE)

\* Math.max(1, Math.min(10, level))
ClampLevel(level) ==
    LET upTo10 == IF level < 10 THEN level ELSE 10
    IN  IF upTo10 > 1 THEN upTo10 ELSE 1

\* addLocation(), addCategory(), addPriority(): the new entry is pushed onto
\* the page's array, which is the service's while the page shares it
addItem(type, name, level) ==
    LET f == ListField(type)
        mine == Get(page.config, f)
        entry == NewEntry(type, NewItemId(type, page.stamp + 1), name, ClampLevel(level))
    IN  /\ page.open
        /\ page.stamp < MaxAdds
        /\ IF IsList(mine)
           THEN /\ page' = [page EXCEPT !.config = WithList(page.config, f, Append(mine.list, entry)),
                                        !.stamp = page.stamp + 1]
                /\ config' = IF page.alias[f] = "array"
                             THEN WithList(config, f, Append(mine.list, entry))
                             ELSE config
                /\ ret' = [op |-> "addItem", type |-> type, threw |-> FALSE]
           ELSE IF type = "location"
           THEN \* this.config.locations.push: a TypeError
                /\ page' = [page EXCEPT !.stamp = page.stamp + 1]
                /\ config' = config
                /\ ret' = [op |-> "addItem", type |-> type, threw |-> TRUE]
           ELSE \* if (!this.config.customCategories) this.config.customCategories = []
                /\ page' = [page EXCEPT !.config = WithList(page.config, f, << entry >>),
                                        !.alias[f] = "own",
                                        !.stamp = page.stamp + 1]
                /\ config' = config
                /\ ret' = [op |-> "addItem", type |-> type, threw |-> FALSE]
        /\ UNCHANGED <<now, calendarVars, dashboardVars, storageVars, lsItem, dbConfig, loads>>

\* toggleItem(e), for the button of an item with the given data-type and
\* data-id: the entry is changed in place, so the service's entry is
\* changed while the page holds the service's entry objects
toggleItem(type, id) ==
    LET f == ListField(type)
        mine == Get(page.config, f)
        theirs == Get(config, f)
    IN  /\ page.open
        /\ IF IsList(mine)
           THEN /\ page' = [page EXCEPT !.config = WithList(page.config, f, Toggled(mine.list, id))]
                /\ config' = IF page.alias[f] \in { "array", "entries" } /\ IsList(theirs)
                             THEN WithList(config, f, Toggled(theirs.list, id))
                             ELSE config
           ELSE UNCHANGED <<page, config>>
        /\ ret' = [op |-> "toggleItem", type |-> type, id |-> id,
                   threw |-> type = "location" /\ ~IsList(mine)]
        /\ UNCHANGED <<now, calendarVars, dashboardVars, storageVars, lsItem, dbConfig, loads>>

\* deleteItem(e), confirmed or not: this.config.<list> = <list>.filter(...),
\* a new array that only the page holds
deleteItem(type, id, confirmed) ==
    LET f == ListField(type)
        mine == Get(page.config, f)
    IN  /\ page.open
        /\ IF confirmed /\ IsList(mine)
           THEN page' = [page EXCEPT !.config = WithList(page.config, f, Filtered(mine.list, id)),
                                     !.alias[f] = IF @ = "array" THEN "entries" ELSE @]
           ELSE page' = page
        /\ ret' = [op |-> "deleteItem", type |-> type, id |-> id, confirmed |-> confirmed,
                   threw |-> confirmed /\ type = "location" /\ ~IsList(mine)]
        /\ UNCHANGED <<now, calendarVars, dashboardVars, storageVars, configVars, loads>>

\* initApp(): the page is loaded again.  The configuration service is
\* constructed anew (the localStorage one loads what is stored, the API one
\* loads at its first use) and the Dashboard initialises itself.
initApp ==
    /\ config' = IF backend = "local" THEN LocalLoadConfig(lsItem) ELSE Null
    /\ \E load \in RequestAnswers, calLoad \in RequestAnswers :
          ShowDashboard(loadAllEvents(lsIndex, lsRecords, dbEvents, load),
                        loadAllEvents(lsIndex, lsRecords, dbEvents, calLoad))
    /\ ret' = [op |-> "initApp"]
    /\ page' = ClosedPage(page.stamp)
    /\ loads' = <<>>
    /\ UNCHANGED <<now, storageVars, lsItem, dbConfig>>

-----------------------------------------------------------------------------
(* Initial states *)

\* The Dashboard with its Calendar, as initApp leaves them at the instant t
\* over a store whose events are evs
UiInitOver(t, evs) ==
    /\ now = t
    /\ currentDate = now
    /\ calSelectedDate = now
    /\ calendarGrid = Render(now)
    /\ calEvents = evs
    /\ events = evs
    /\ selectedDate = now
    /\ eventList = DashboardGetEventsForDate(evs, now)
    /\ stats = updateStats(evs, now)
    /\ ret = NoRet

\* The Dashboard with its Calendar, as constructed over an empty store
UiInit(t) == UiInitOver(t, <<>>)

StorageInit ==
    /\ backend \in {"local", "api"}
    /\ lsIndex = <<>>
    /\ lsRecords = <<>>
    /\ dbEvents = <<>>
    /\ issued = 0

\* The localStorage service loads in its constructor, from a browser that
\* holds no configuration yet; the API service loads at its first use.
ConfigInit ==
    /\ lsItem = Null
    /\ dbConfig = DemoConfiguration
    /\ config = IF backend = "local" THEN LocalLoadConfig(lsItem) ELSE Null
    /\ loads = <<>>
    /\ page = ClosedPage(0)

\* The application is started at the first instant of the clock
ClockStart == CHOOSE t \in Clock : \A u \in Clock : t <= u

Init == StorageInit /\ UiInit(ClockStart) /\ ConfigInit

\* updateConfig({ firstDayOfWeek: d })
FirstDayUpdates == { Obj([firstDayOfWeek |-> Num(d)]) : d \in {0, 1} }

\* Updates of single fields, and what ConfigPage.saveConfig sends for its
\* form (the fields of the form and the whole features object)
\* parseFloat of the text of the duration input: a number, or NaN when the
\* input is empty
parseFloat(text) == IF text = "" THEN NaN ELSE Num(1)

FieldUpdates ==
    { Obj([companyName |-> Str("Acme Events")]),
      Obj([companyName |-> Str("")]),
      Obj([firstDayOfWeek |-> Num(1)]),
      Obj([features |-> Obj([showAttendees |-> FALSE])]) }
    \cup
    { Obj([companyName |-> Str("Acme Events"), firstDayOfWeek |-> Num(0),
           defaultEventDuration |-> parseFloat(duration),
           features |-> Obj([showAttendees |-> TRUE, showLocation |-> TRUE,
                             showDescription |-> TRUE, allowRecurring |-> TRUE,
                             allowFileAttachments |-> FALSE])]) :
        duration \in { "1", "" } }

\* Updates that replace a list
ListUpdates ==
    { Obj([customCategories |->
             List(<< Category("seminar", "Seminar", "#6b7280", TRUE),
                     Category("retreat", "Retreat", "#6b7280", FALSE) >>)]),
      Obj([customPriorities |->
             List(<< Priority("minor", "Minor", "#6b7280", 3, TRUE),
                     Priority("major", "Major", "#6b7280", 9, TRUE),
                     Priority("usual", "Usual", "#6b7280", 5, TRUE) >>)]) }

\* Documents given to importConfig: not JSON; a number, a string, null and
\* arrays; a configuration
Documents ==
    { NotJson,
      JSON_stringify(Num(42)),
      JSON_stringify(Str("x")),
      JSON_stringify(Null),
      JSON_stringify(List(<<>>)),
      JSON_stringify(List(<< Num(1) >>)),
      JSON_stringify(Obj([companyName |-> Str("Imported Venue"), firstDayOfWeek |-> Num(1)])) }

\* The items whose toggle button is clicked: the first category and the
\* first priority of a page
ToggledItems ==
    { <<"category", "training">>, <<"category", "meeting">>, <<"priority", "critical">> }

CalendarNext ==
    \/ Tick
    \/ previousMonth
    \/ nextMonth
    \/ goToToday
    \/ showDashboardPage
    \/ \E updates \in FirstDayUpdates : updateConfig(updates)

EventsNext ==
    \/ \E data \in EventData : handleCreateEvent(data)
    \/ \E date \in EventDays : handleDayClick(date)
    \/ \E date \in Instants : getEventsForDate(date)

ListsNext ==
    \/ \E updates \in ListUpdates : updateConfig(updates)
    \/ render
    \/ \E item \in ToggledItems : toggleItem(item[1], item[2])
    \/ getAllCategories
    \/ getAllPriorities

ConfigNext ==
    \/ \E updates \in FieldUpdates : updateConfig(updates)
    \/ \E jsonString \in Documents \cup ExportedTexts : importConfig(jsonString)
    \/ exportConfig

ReloadNext ==
    \/ \E updates \in FieldUpdates : updateConfig(updates)
    \/ initApp

\* The calendar: month navigation, and the first day of the week configured
SpecCalendar == Init /\ [][CalendarNext]_vars

\* The events, on the leap day: the store, the Dashboard list and the day cells
InitEvents == StorageInit /\ UiInit(NewDate(LeapYear, 1, 29) + LastMinute) /\ ConfigInit

SpecEvents == InitEvents /\ [][EventsNext]_vars

\* The lists of the configuration: categories and priorities
SpecLists == Init /\ [][ListsNext]_vars

\* Updates and imports of the configuration
SpecConfig == Init /\ [][ConfigNext]_vars

\* Updates of the configuration, and the page loaded again
SpecReload == Init /\ [][ReloadNext]_vars

\* The day the statistics are looked at: the leap day
StatsDay == NewDate(LeapYear, 1, 29)

\* The events an earlier session may have left in the store: one of the
\* morning of the day, one of the day after, one from the day before to the
\* day after, an urgent one in the afternoon, an urgent one early on the day
\* after and an urgent one at the first minute of the day
StoredBefore ==
    << [title |-> "Team Meeting", priority |-> "high", attendees |-> <<>>,
        startDate |-> StatsDay + 9 * 60, endDate |-> StatsDay + 10 * 60],
       [title |-> "Team Meeting", priority |-> "high", attendees |-> <<>>,
        startDate |-> StatsDay + MinutesPerDay + 10 * 60,
        endDate |-> StatsDay + MinutesPerDay + 11 * 60],
       [title |-> "Team Meeting", priority |-> "high", attendees |-> <<>>,
        startDate |-> StatsDay - MinutesPerDay + 10 * 60,
        endDate |-> StatsDay + MinutesPerDay + 10 * 60],
       [title |-> "Team Meeting", priority |-> "urgent", attendees |-> <<>>,
        startDate |-> StatsDay + 14 * 60, endDate |-> StatsDay + 15 * 60],
       [title |-> "Team Meeting", priority |-> "urgent", attendees |-> <<>>,
        startDate |-> StatsDay + MinutesPerDay + 30,
        endDate |-> StatsDay + MinutesPerDay + 90],
       [title |-> "Team Meeting", priority |-> "urgent", attendees |-> <<>>,
        startDate |-> StatsDay, endDate |-> StatsDay + 60] >>

\* The instants the application is started at, on that day
StatsClock == { StatsDay + 12 * 60, StatsDay + 22 * 60 + 30 }

\* The events of StoredBefore at the positions in S, in their order
Chosen(S) ==
    LET idx == SelectSeq([i \in 1..Len(StoredBefore) |-> i], LAMBDA i : i \in S)
    IN  [k \in 1..Len(idx) |-> StoredBefore[idx[k]]]

\* The store holds events of an earlier session, saved by saveEvent under
\* the ids 1, 2, ..., and the application is started (initApp, every request
\* answered)
InitStats ==
    /\ backend \in {"local", "api"}
    /\ \E S \in SUBSET (1..Len(StoredBefore)) :
          LET drafts == Chosen(S)
              n == Len(drafts)
          IN  /\ issued = n
              /\ lsIndex = IF backend = "local" THEN [i \in 1..n |-> i] ELSE <<>>
              /\ lsRecords =
                    IF backend = "local"
                    THEN [i \in 1..n |->
                            StringifyEvent([id |-> i, title |-> drafts[i].title,
                                            priority |-> drafts[i].priority,
                                            attendees |-> drafts[i].attendees,
                                            startDate |-> drafts[i].startDate,
                                            endDate |-> drafts[i].endDate])]
                    ELSE <<>>
              /\ dbEvents =
                    IF backend = "api"
                    THEN [i \in 1..n |->
                            [EventId |-> i, VenueId |-> DemoVenueId,
                             Title |-> drafts[i].title,
                             StartDate |-> drafts[i].startDate,
                             EndDate |-> drafts[i].endDate,
                             PriorityCode |-> drafts[i].priority,
                             Attendees |-> drafts[i].attendees]]
                    ELSE <<>>
    /\ \E t \in StatsClock :
          /\ now = t
          /\ UiInitOver(t, loadAllEvents(lsIndex, lsRecords, dbEvents, "ok"))
    /\ ConfigInit

StatsNext ==
    \/ Tick
    \/ refresh

\* The statistics of the dashboard, over the events of an earlier session
SpecStats == InitStats /\ [][StatsNext]_vars

\* The drafts saved in the store's life cycle: the leap day, to its last
\* minute or to the first minute of the day after
StoreData == { d \in EventData : d.startDate = NewDate(LeapYear, 1, 29) }

StoreNext ==
    \/ \E data \in StoreData : handleCreateEvent(data)
    \/ \E e \in Range(events) \cup Range(calEvents), data \in StoreData :
          handleUpdateEvent(e, data)
    \/ \E id \in 1..MaxEvents : handleDeleteEvent(id)
    \/ \E id \in 1..MaxEvents : deleteEventElsewhere(id)
    \/ refresh

\* Events created, updated and deleted from the Dashboard, and deleted elsewhere
SpecStore == Init /\ [][StoreNext]_vars

\* The items of the configuration page whose buttons are used: a category
\* and a priority that both services hold, a location added on the page, and
\* an id no entry has
PageItems ==
    { <<"category", "training">>, <<"priority", "critical">>,
      <<"location", "location-1">>, <<"priority", "no-such-id">> }

\* What is typed into the prompt for the level of a new priority
PromptedLevels == { 12 }

PageNext ==
    \/ render
    \/ \E type \in ItemTypes, level \in PromptedLevels : addItem(type, "Annex", level)
    \/ \E item \in PageItems : toggleItem(item[1], item[2])
    \/ \E item \in PageItems, confirmed \in BOOLEAN : deleteItem(item[1], item[2], confirmed)
    \/ getConfig

\* The configuration page is opened and its lists are edited
SpecPage == Init /\ [][PageNext]_vars

LoadNext ==
    \/ \E op \in LoadCallers : callLoading(op)
    \/ \E i \in 1..MaxLoads, answer \in Answers : configAnswered(i, answer)
    \/ \E i \in 1..MaxLoads, answer \in ListAnswers : listsAnswered(i, answer)

\* The API service is used by callers that do not wait for one another
SpecLoad == Init /\ [][LoadNext]_vars

\* The events in the store
StoredEvents == loadAllEvents(lsIndex, lsRecords, dbEvents, "ok")

IndexNext ==
    \/ \E eventData \in StoreData : saveEvent(eventData)
    \/ \E e \in Range(StoredEvents), data \in StoreData : updateEvent(Edited(e, data))
    \/ \E id \in 1..MaxEvents : deleteEventElsewhere(id)
    \/ clearAllEvents

\* The operations of EventStorage, called one after the other
SpecIndex == Init /\ [][IndexNext]_vars

\* Drafts with an attendee
GuestData == { [d EXCEPT !.attendees = << "John Doe" >>] : d \in StoreData }

GuestsNext ==
    \/ \E data \in GuestData : handleCreateEvent(data)
    \/ \E e \in Range(events) \cup Range(calEvents), data \in StoreData :
          handleUpdateEvent(e, data)

\* Events with attendees, created and then edited
SpecGuests == Init /\ [][GuestsNext]_vars

\* What the clients of the venues send: the drafts, and one with a priority
\* of the sample venue's own
TenantData ==
    StoreData \cup
      { [d EXCEPT !.priority = "vip"] :
          d \in { x \in StoreData : x.endDate = NewDate(LeapYear, 2, 1) } }

TenantsNext ==
    \/ \E venueId \in Venues, eventId \in {NoEventId} \cup (1..MaxEvents),
          data \in TenantData : apiPostEvents(venueId, eventId, data)
    \/ \E venueId \in Venues, eventId \in 1..MaxEvents : apiDeleteEvents(venueId, eventId)
    \/ \E venueId \in Venues :
          apiGetEvents(venueId, NewDate(LeapYear, 1, 29), NewDate(LeapYear, 2, 1))

\* The event procedures of the database, called for two venues
SpecTenants == Init /\ [][TenantsNext]_vars

DraftsNext ==
    \/ \E form \in Forms : handleSubmit(form)
    \/ \E eventData \in Forms : saveEvent(eventData)

\* Drafts of events, valid or not, from the editor and from direct callers
SpecDrafts == InitEvents /\ [][DraftsNext]_vars

Next ==
    \/ CalendarNext \/ EventsNext \/ ListsNext \/ ConfigNext \/ ReloadNext
    \/ StatsNext \/ StoreNext \/ TenantsNext \/ DraftsNext \/ GuestsNext
    \/ IndexNext \/ PageNext \/ LoadNext

Spec == Init /\ [][Next]_vars

-----------------------------------------------------------------------------
(* Properties: events of a date *)

\* The events of a sequence that are on the day of date: those whose first
\* day is not after it and whose last day is not before it
OnDay(evs, date) ==
    { e \in Range(evs) : Day(e.startDate) <= Day(date) /\ Day(date) <= Day(e.endDate) }

\* A sequence lists exactly the elements of a set, each once
ListsExactly(seq, set) == Range(seq) = set /\ Len(seq) = Cardinality(set)

\* The events in the browser's store
LsStoredEvents ==
    [i \in 1..Len(lsIndex) |->
        [id |-> lsIndex[i], title |-> lsRecords[lsIndex[i]].title,
         priority |-> lsRecords[lsIndex[i]].priority,
         attendees |-> lsRecords[lsIndex[i]].attendees,
         startDate |-> lsRecords[lsIndex[i]].startDate.iso,
         endDate |-> lsRecords[lsIndex[i]].endDate.iso]]

\* C1: getEventsForDate returns exactly the events e with
\* startOfDay(e.startDate) <= startOfDay(date) <= startOfDay(e.endDate),
\* whatever the times of day: the Dashboard's list for its selected date,
\* and what the localStorage EventStorage returns for the date it was asked.
C1_EventsOnDate ==
    /\ ListsExactly(eventList, OnDay(events, selectedDate))
    /\ (ret.op = "getEventsForDate" /\ backend = "local")
         => ListsExactly(ret.value, OnDay(LsStoredEvents, ret.date))

\* A two-day event that starts in the last minute of its first day is listed
\* on its last day, at whose first minute it ends, while another stored event
\* is not; and for a target in the last minute of a day the store returned
\* some of its events and not others.
C1_Witness ==
    /\ backend = "local"
    /\ \E e \in Range(eventList) :
          /\ TimeWithinDay(e.startDate) = LastMinute
          /\ Day(e.startDate) + 1 = Day(selectedDate)
          /\ e.endDate = selectedDate
    /\ Range(events) \ Range(eventList) # {}
    /\ ret.op = "getEventsForDate"
    /\ TimeWithinDay(ret.date) = LastMinute
    /\ ret.value # <<>>
    /\ Len(ret.value) < Len(lsIndex)

IsSortedByStart(seq) ==
    \A i, j \in 1..Len(seq) : i < j => seq[i].startDate <= seq[j].startDate

\* C6: the events of a date come ordered by startDate ascending in the
\* Dashboard's list, in every day cell of the Calendar and in what
\* EventStorage.getEventsForDate returns, whatever the order of creation.
C6_OrderedByStart ==
    /\ IsSortedByStart(eventList)
    /\ \A date \in GridDates(calendarGrid) :
          IsSortedByStart(CalendarGetEventsForDate(calEvents, date))
    /\ ret.op = "getEventsForDate" => IsSortedByStart(ret.value)

\* Two events on the selected day of which the later created starts
\* earlier, shown in the list and in the day's cell and returned by the API
C6_Witness ==
    /\ backend = "api"
    /\ Len(dbEvents) = 2
    /\ dbEvents[2].StartDate < dbEvents[1].StartDate
    /\ Len(eventList) = 2
    /\ Len(CalendarGetEventsForDate(calEvents, calSelectedDate)) = 2
    /\ ret.op = "getEventsForDate"
    /\ Len(ret.value) = 2

-----------------------------------------------------------------------------
(* Properties: the calendar grid *)

\* The cells of a grid, row by row
Cells(grid) ==
    [i \in 1..(Len(grid) * WeekLength) |->
        grid[((i - 1) \div WeekLength) + 1][((i - 1) % WeekLength) + 1]]

\* The cells of the shown grid that lie in the displayed month
MonthCells ==
    { i \in 1..Len(Cells(calendarGrid)) :
        /\ getFullYear(Cells(calendarGrid)[i]) = getFullYear(currentDate)
        /\ getMonth(Cells(calendarGrid)[i]) = getMonth(currentDate) }

DaysInMonth(y, m) == DaysBeforeMonth(m + 1, LeapOf(y)) - DaysBeforeMonth(m, LeapOf(y))

\* C2: the grid of every month has exactly 6 rows of exactly 7 cells.
C2_SixBySeven ==
    /\ Len(calendarGrid) = 6
    /\ \A w \in 1..Len(calendarGrid) : Len(calendarGrid[w]) = 7

\* The grid of a February of 28 days that starts on a Sunday, which fills
\* four weeks exactly
C2_Witness ==
    /\ getMonth(currentDate) = 1
    /\ ~IsLeapYear(getFullYear(currentDate))
    /\ getDay(NewDate(getFullYear(currentDate), 1, 1)) = 0
    /\ Len(calendarGrid) = 6

\* C3: the cells of a month's grid contain the 1st and the last day of the
\* month, and so every day of it.
C3_CoversMonth ==
    /\ \E i \in MonthCells : getDate(Cells(calendarGrid)[i]) = 1
    /\ \E i \in MonthCells :
          getDate(Cells(calendarGrid)[i])
              = DaysInMonth(getFullYear(currentDate), getMonth(currentDate))
    /\ Cardinality(MonthCells) = DaysInMonth(getFullYear(currentDate), getMonth(currentDate))

\* A month of 31 days whose 1st is a Saturday: its last day is in the sixth row
C3_Witness ==
    /\ getDay(NewDate(getFullYear(currentDate), getMonth(currentDate), 1)) = 6
    /\ \E c \in 1..WeekLength :
          /\ getMonth(calendarGrid[6][c]) = getMonth(currentDate)
          /\ getDate(calendarGrid[6][c]) = 31

\* C5: read row by row, each cell is the calendar day after the previous
\* cell.
C5_ConsecutiveDays ==
    \A i \in 1..(Len(Cells(calendarGrid)) - 1) :
        /\ Day(Cells(calendarGrid)[i + 1]) = Day(Cells(calendarGrid)[i]) + 1
        /\ TimeWithinDay(Cells(calendarGrid)[i + 1]) = TimeWithinDay(Cells(calendarGrid)[i])

\* The grid of the January after a leap year: it starts in December and runs
\* over the year's end, and the grid of that leap year's February has been shown
C5_Witness ==
    /\ getMonth(currentDate) = 0
    /\ getFullYear(calendarGrid[1][1]) = LeapYear
    /\ getFullYear(calendarGrid[6][7]) = LeapYear + 1
    /\ getMonth(calendarGrid[6][7]) = 1

-----------------------------------------------------------------------------
(* Properties: the configuration *)

\* What getConfig() returns: the API service loads at the first use
InMemory == IF config = Null THEN ApiLoadedConfig(dbConfig) ELSE config

\* C4: the first cell of the grid shown for a month is the most recent day
\* on or before the 1st of the month whose weekday is the venue's configured
\* firstDayOfWeek (stated of each step that shows another month).
C4_FirstCellOnConfiguredDay ==
    [][currentDate' # currentDate =>
         /\ getDay(calendarGrid'[1][1]) = InMemory'.firstDayOfWeek.num
         /\ Day(NewDate(getFullYear(currentDate'), getMonth(currentDate'), 1))
              - Day(calendarGrid'[1][1]) \in 0..6]_vars

Ids(seq) == [i \in 1..Len(seq) |-> seq[i].id]

\* The entries of a list of the configuration that are active, in stored order
ActiveEntries(field) ==
    IF field \in DOMAIN config /\ IsList(config[field])
    THEN SelectSeq(config[field].list, LAMBDA entry : entry.isActive)
    ELSE <<>>

\* C7: getAllCategories returns the four defaults meeting, personal, work,
\* other, followed by the entries of config.customCategories whose isActive
\* is true, in stored order, and nothing else.
C7_DefaultsThenActiveCategories ==
    (ret.op = "getAllCategories" /\ ~ret.threw)
        => Ids(ret.value)
             = <<"meeting", "personal", "work", "other">> \o Ids(ActiveEntries("customCategories"))

LevelOf(id) ==
    LET list == config.customPriorities.list
    IN  list[CHOOSE i \in 1..Len(list) : list[i].id = id].level

\* C8: getAllPriorities returns the three defaults high, medium, low,
\* followed by the active custom priorities sorted by level descending.
C8_DefaultsThenActivePrioritiesByLevel ==
    (ret.op = "getAllPriorities" /\ ~ret.threw)
        => LET custom == SubSeq(Ids(ret.value), 4, Len(ret.value))
           IN  /\ SubSeq(Ids(ret.value), 1, 3) = <<"high", "medium", "low">>
               /\ ListsExactly(custom, Range(Ids(ActiveEntries("customPriorities"))))
               /\ \A i, j \in 1..Len(custom) :
                     i < j => LevelOf(custom[i]) >= LevelOf(custom[j])

\* C9: an updateConfig whose update could not be persisted leaves what
\* getConfig returns as it was before the call.
C9_FailedUpdateKeepsConfig ==
    [][(ret'.op = "updateConfig" /\ ~ret'.persisted) => InMemory' = InMemory]_vars

\* A document that is not JSON, or whose value is not an object
StructurallyInvalid(text) == ParseThrows(text) \/ ~IsObj(JSON_parse(text))

\* C10: importConfig of a structurally invalid document returns failure and
\* leaves the configuration, in memory and in the store, as it was.
C10_InvalidImportRejected ==
    [][(ret'.op = "importConfig" /\ StructurallyInvalid(ret'.text)) =>
         /\ ret'.value = FALSE
         /\ InMemory' = InMemory
         /\ lsItem' = lsItem
         /\ dbConfig' = dbConfig]_vars

\* The defaults of the system: DEFAULT_CONFIG, and with the API service also
\* the configuration the venue has in the database as installed
SystemDefaults ==
    IF backend = "local" THEN { DEFAULT_CONFIG }
    ELSE { DEFAULT_CONFIG, ApiLoadedConfig(DemoConfiguration) }

\* C11: after a successful importConfig of a document that lacks top-level
\* fields, every field missing from the document holds the system default,
\* not the value held before the import, and every field present in the
\* document holds the document's value.
C11_ImportFillsFromDefaults ==
    (ret.op = "importConfig" /\ ret.value /\ IsObj(JSON_parse(ret.text)))
        => \A f \in DOMAIN DEFAULT_CONFIG :
              IF f \in DOMAIN JSON_parse(ret.text).obj
              THEN config[f] = JSON_parse(ret.text).obj[f]
              ELSE \E defaults \in SystemDefaults : config[f] = defaults[f]

\* C12: a configuration exported and imported at once: the import succeeds
\* when the server answers, and every field of the configuration is what it
\* was when exported.
C12_ExportImportRoundTrip ==
    [][(ret.op = "exportConfig" /\ ~ret.threw /\ ret'.op = "importConfig"
          /\ ret'.text = ret.value /\ ret'.answered)
         => (ret'.value /\ config' = config)]_vars

\* The value the merge of the claim gives field f: that of over when over
\* has f with a value that is not null, that of base otherwise
MergedField(base, over, f) ==
    IF f \in DOMAIN over /\ over[f] # Null THEN over[f] ELSE Get(base, f)

\* C13: the merge of the stored configuration over the defaults, and of
\* updates over the configuration, of the localStorage service: every
\* top-level field holds the overriding value when that is present and not
\* null, and the default (the value of before) otherwise.
C13_EffectiveConfigMerge ==
    [][/\ (backend = "local" /\ ret'.op = "initApp" /\ lsItem # Null)
           => \A f \in DOMAIN config' \cup DOMAIN DEFAULT_CONFIG :
                 Get(config', f)
                   = MergedField(DEFAULT_CONFIG, OwnProperties(JSON_parse(lsItem)), f)
       /\ (backend = "local" /\ ret'.op = "updateConfig")
           => \A f \in DOMAIN config' \cup DOMAIN config :
                 Get(config', f) = MergedField(config, OwnProperties(ret'.updates), f)]_vars

\* C14: the merge is idempotent, merge(merge(a, b), b) = merge(a, b) for the
\* configuration a in memory and every update b; and an updateConfig that
\* repeats the one before it leaves the configuration, in memory and in the
\* database, as the first left it.
C14_MergeIdempotent ==
    /\ [](\A b \in FieldUpdates \cup ListUpdates :
            /\ Spread(Spread(DEFAULT_CONFIG, b), b) = Spread(DEFAULT_CONFIG, b)
            /\ Spread(Spread(InMemory, b), b) = Spread(InMemory, b))
    /\ [][(ret'.op = "updateConfig" /\ ret'.repeated /\ ~ret'.threw)
            => (config' = config /\ dbConfig' = dbConfig)]_vars

\* The form's update was applied twice in a row by the API service and
\* changed the configuration the venue had
C14_Witness ==
    /\ backend = "api"
    /\ ret.op = "updateConfig"
    /\ ret.repeated
    /\ ~ret.threw
    /\ "features" \in DOMAIN ret.updates.obj
    /\ "companyName" \in DOMAIN ret.updates.obj
    /\ config # ApiLoadedConfig(DemoConfiguration)
    /\ dbConfig # DemoConfiguration

\* The column of dbo.VenueConfigurations a feature flag is stored in
FlagColumn ==
    [showAttendees |-> "ShowAttendees", showLocation |-> "ShowLocation",
     showDescription |-> "ShowDescription", allowRecurring |-> "AllowRecurring",
     allowFileAttachments |-> "AllowFileAttachments"]

\* C15: an updateConfig that succeeds replaces features as a whole: with a
\* features object in the updates, features is exactly that object and every
\* flag is stored as on only if the object has it on; without one, the five
\* flags are what they were, in memory and in the database.
C15_FeaturesReplacedWhole ==
    [][(ret'.op = "updateConfig" /\ ~ret'.threw) =>
         IF "features" \in DOMAIN ret'.updates.obj
         THEN /\ config'.features = ret'.updates.obj.features
              /\ backend = "api" =>
                    \A flag \in DOMAIN FlagColumn :
                       dbConfig'[FlagColumn[flag]]
                         = IF /\ flag \in DOMAIN ret'.updates.obj.features.obj
                              /\ ret'.updates.obj.features.obj[flag]
                           THEN 1 ELSE 0
         ELSE /\ config'.features = InMemory.features
              /\ \A flag \in DOMAIN FlagColumn :
                    dbConfig'[FlagColumn[flag]] = dbConfig[FlagColumn[flag]]]_vars

\* The API service was given a features object with one flag: the flags it
\* did not name, on before, are absent in memory and off in the database
C15_Witness ==
    /\ backend = "api"
    /\ ret.op = "updateConfig"
    /\ ~ret.threw
    /\ ret.updates = Obj([features |-> Obj([showAttendees |-> FALSE])])
    /\ DOMAIN config.features.obj = {"showAttendees"}
    /\ dbConfig.ShowLocation = 0
    /\ dbConfig.ShowDescription = 0

-----------------------------------------------------------------------------
(* Properties: the statistics of the dashboard *)

\* A step of refresh (the clock does not move in it)
Refreshed == ret'.op = "refresh" /\ now' = now

\* The local midnight the day of t begins with
Midnight(t) == t - (t % MinutesPerDay)

IsOnDay(e, t) == Day(e.startDate) <= Day(t) /\ Day(t) <= Day(e.endDate)

\* evs is the scenario at the instant t: an event of today 09:00 to 10:00,
\* one of tomorrow, one from yesterday to tomorrow and an urgent one that
\* starts in two hours
IsScenario(evs, t) ==
    /\ Len(evs) = 4
    /\ \E a, b, c, d \in Range(evs) :
          /\ Cardinality({a, b, c, d}) = 4
          /\ a.startDate = Midnight(t) + 9 * 60 /\ a.endDate = Midnight(t) + 10 * 60
          /\ Day(b.startDate) = Day(t) + 1 /\ Day(b.endDate) = Day(t) + 1
          /\ Day(c.startDate) = Day(t) - 1 /\ Day(c.endDate) = Day(t) + 1
          /\ d.priority = "urgent" /\ d.startDate = t + 2 * 60
          /\ \A e \in {a, b, c} : e.priority # "urgent"

\* The four counts of the contract hold of the statistics shown
CountsAsSpecified(st, evs, t) ==
    /\ st.total = Len(evs)
    /\ st.today = Cardinality({ i \in 1..Len(evs) : IsOnDay(evs[i], t) })
    /\ st.upcoming = Cardinality({ i \in 1..Len(evs) : evs[i].startDate > Midnight(t) })
    /\ st.urgent = Cardinality({ i \in 1..Len(evs) :
                                   evs[i].priority = "urgent" /\ evs[i].startDate >= t })

\* C16 as stated: the four counts, and for the scenario today = 2,
\* upcoming >= 1 and urgent = 1.
C16_StatsScenarioTodayIsTwo ==
    [][Refreshed =>
         /\ CountsAsSpecified(stats', events', now)
         /\ IsScenario(events', now) =>
               stats'.today = 2 /\ stats'.upcoming >= 1 /\ stats'.urgent = 1]_vars

\* C16, amended: total is the number of events, today the number of events
\* on today's date, upcoming the number of events that start after today's
\* local midnight, urgent the number of urgent events that start now or
\* later; for the scenario, upcoming >= 1, urgent = 1, and today = 2 when
\* the urgent event starts after the coming midnight, 3 when it starts today.
C16_StatsCounts ==
    [][Refreshed =>
         /\ CountsAsSpecified(stats', events', now)
         /\ IsScenario(events', now) =>
               /\ stats'.today = IF Day(now + 2 * 60) = Day(now) THEN 3 ELSE 2
               /\ stats'.upcoming >= 1
               /\ stats'.urgent = 1]_vars

\* The scenario is shown with the urgent event starting after midnight:
\* today counts two events, one of them from yesterday to tomorrow
C16_Witness ==
    /\ ret.op = "refresh"
    /\ IsScenario(events, now)
    /\ stats.today = 2 /\ stats.urgent = 1 /\ stats.upcoming = 3
    /\ \E e \in Range(events) : Day(e.startDate) < Day(now) /\ IsOnDay(e, now)

\* C17: an event is counted in both today and upcoming only if it spans
\* several days and starts after today's boundary; a single-day event is
\* never counted in both.  When every event shown is a single-day one, the
\* two counts together do not exceed the number of events.
C17_SingleDayNotCountedTwice ==
    [][(Refreshed /\ \A e \in Range(events') : Day(e.startDate) = Day(e.endDate))
         => stats'.today + stats'.upcoming <= stats'.total]_vars

-----------------------------------------------------------------------------
(* Properties: venues, and events that are not in the store *)

\* The rows of dbo.Events that belong to other venues than VenueId
RowsOfOthers(rows, VenueId) == { r \in Range(rows) : r.VenueId # VenueId }

\* C18: a stored-procedure call for the venue V never returns, modifies or
\* deletes an event of another venue: sp_GetEventsForDateRange returns rows
\* of V only, and sp_SaveEvent and sp_DeleteEvent leave the rows of the other
\* venues as they are (sp_SaveEvent with the EventId of another venue's
\* event too).
C18_TenantIsolation ==
    [][/\ ret'.op = "sp_GetEventsForDateRange"
            => \A r \in Range(ret'.value) : r.VenueId = ret'.VenueId
       /\ ret'.op \in {"sp_SaveEvent", "sp_DeleteEvent"}
            => RowsOfOthers(dbEvents', ret'.VenueId) = RowsOfOthers(dbEvents, ret'.VenueId)]_vars

\* C19: an update or a delete of an event that is not in the store is
\* reported as a failure, creates no event, and the Dashboard does not go on
\* as if it had succeeded (it does not navigate back to the dashboard page).
C19_MissingIdIsFailure ==
    [][(ret'.op \in {"handleUpdateEvent", "handleDeleteEvent"} /\ ret'.id \notin StoredIds)
         => /\ ret'.threw
            /\ StoredIds' = StoredIds
            /\ UNCHANGED <<calendarVars, dashboardVars>>]_vars

\* C20: when loading the events fails, the list in memory (the Dashboard's
\* and the Calendar's) keeps the value it had, and the failure is surfaced.
C20_FailedLoadKeepsEvents ==
    [][ret'.op = "refresh" =>
         /\ ret'.load = "failed" => events' = events /\ ret'.threw
         /\ ret'.calLoad = "failed" => calEvents' = calEvents /\ ret'.threw]_vars

-----------------------------------------------------------------------------
(* Properties: the dates of the stored events *)

\* C21: every event created through any path (the editor's form, a direct
\* EventStorage.saveEvent, sp_SaveEvent) has endDate strictly greater than
\* startDate: a draft with endDate <= startDate is rejected and nothing of
\* it is persisted.
C21_EndAfterStart ==
    /\ \A id \in DOMAIN lsRecords :
          ParseDate(lsRecords[id].endDate) > ParseDate(lsRecords[id].startDate)
    /\ \A i \in 1..Len(dbEvents) : dbEvents[i].EndDate > dbEvents[i].StartDate

-----------------------------------------------------------------------------
(* Properties: month navigation *)

\* The months since year 0 of the month a date lies in
MonthIndex(t) == getFullYear(t) * 12 + getMonth(t)

\* C30: nextMonth makes the displayed (year, month) the immediately
\* following calendar month and previousMonth the immediately preceding
\* one, whatever the day of the month of the current date.
C30_MovesByOneMonth ==
    [][/\ (ret'.op = "nextMonth" /\ currentDate' # currentDate)
            => MonthIndex(currentDate') = MonthIndex(currentDate) + 1
       /\ (ret'.op = "previousMonth" /\ currentDate' # currentDate)
            => MonthIndex(currentDate') = MonthIndex(currentDate) - 1]_vars

-----------------------------------------------------------------------------
(* Properties: the configuration in memory and in the store *)

\* Two values of a field agree: feature flags by being on or off (a flag
\* that is absent is off), everything else by being equal
SameField(f, a, b) ==
    IF f = "features" /\ IsObj(a) /\ IsObj(b)
    THEN \A flag \in DOMAIN FlagColumn :
            (flag \in DOMAIN a.obj /\ a.obj[flag] = TRUE)
              <=> (flag \in DOMAIN b.obj /\ b.obj[flag] = TRUE)
    ELSE a = b

\* C27: after a successful updateConfig(updates) on the API service, loading
\* again from the store yields, for every field of updates, the value the
\* configuration in memory has.
C27_StoredAgreesWithMemory ==
    [][(backend = "api" /\ ret'.op = "updateConfig" /\ ~ret'.threw) =>
         \A f \in DOMAIN OwnProperties(ret'.updates) :
            SameField(f, Get(ApiLoadedConfig(dbConfig'), f), Get(config', f))]_vars

-----------------------------------------------------------------------------
(* Properties: the attendees of an event *)

\* The attendees the store holds for the event id (none if it holds no
\* such event), given the records and the rows
StoredAttendees(records, rows, id) ==
    IF backend = "local"
    THEN IF id \in DOMAIN records THEN records[id].attendees ELSE <<>>
    ELSE IF \E i \in 1..Len(rows) : rows[i].EventId = id
         THEN rows[CHOOSE i \in 1..Len(rows) : rows[i].EventId = id].Attendees
         ELSE <<>>

\* C28: updating a stored event through the editor without touching its
\* attendees preserves them: after the update the store holds the attendees
\* it held for the event before.
C28_UpdateKeepsAttendees ==
    [][(ret'.op = "handleUpdateEvent" /\ ~ret'.threw /\ ret'.id \in StoredIds)
         => StoredAttendees(lsRecords', dbEvents', ret'.id)
              = StoredAttendees(lsRecords, dbEvents, ret'.id)]_vars

-----------------------------------------------------------------------------
(* Properties: the master index of the localStorage store *)

\* C29: in the localStorage EventStorage, after any sequence of saveEvent,
\* updateEvent, deleteEvent and clearAllEvents, the master index lists each
\* id at most once, lists an id if and only if a record is stored for it,
\* and loadAllEvents returns exactly one event per stored record, sorted by
\* startDate ascending.
C29_IndexMatchesRecords ==
    backend = "local" =>
      /\ \A i, j \in 1..Len(lsIndex) : lsIndex[i] = lsIndex[j] => i = j
      /\ Range(lsIndex) = DOMAIN lsRecords
      /\ Len(LsLoadAllEvents(lsIndex, lsRecords)) = Cardinality(DOMAIN lsRecords)
      /\ { e.id : e \in Range(LsLoadAllEvents(lsIndex, lsRecords)) } = DOMAIN lsRecords
      /\ IsSortedByStart(LsLoadAllEvents(lsIndex, lsRecords))

-----------------------------------------------------------------------------
(* Properties: the lists of the configuration page *)

\* The codes of the default entries (VenueId NULL, IsDefault = 1) among the
\* rows of the database that a list of the given type is loaded from
DefaultCodes(type) ==
    CASE type = "category" ->
           { DbCategories[i].CategoryCode :
               i \in { j \in 1..Len(DbCategories) : DbCategories[j].IsDefault = 1 } }
      [] type = "priority" ->
           { DbPriorities[i].PriorityCode :
               i \in { j \in 1..Len(DbPriorities) : DbPriorities[j].IsDefault = 1 } }
      [] OTHER -> {}

\* C22: with the configuration loaded through the API service, no toggle or
\* delete of the configuration page changes or removes an entry of a default
\* (system-wide) category or priority: the step of a toggleItem or
\* deleteItem that changes the page's lists is never about a default code.
C22_DefaultsNeverEdited ==
    [][(backend = "api" /\ page.open /\ ret'.op \in { "toggleItem", "deleteItem" }
          /\ page'.config # page.config)
         => ret'.id \notin DefaultCodes(ret'.type)]_vars

\* The list of the page that an item of the given type is in
PageList(p, type) == OrEmpty(Get(p.config, ListField(type)))

\* The positions of the entries of a list that have the id
Matching(list, id) == { i \in 1..Len(list) : list[i].id = id }

\* The page's configuration is the same but for the list of the type
OnlyListChanges(type) ==
    /\ DOMAIN page'.config = DOMAIN page.config
    /\ \A k \in DOMAIN page.config \ { ListField(type) } : page'.config[k] = page.config[k]

\* C23: toggleItem with a type and an id flips isActive on exactly one entry
\* of that list, one whose id matches, and leaves every other entry, the
\* order and the other two lists unchanged; when no entry has the id it
\* changes nothing and raises no error.
C23_ToggleFlipsOne ==
    [][(page.open /\ ret'.op = "toggleItem") =>
         LET old == PageList(page, ret'.type)
             new == PageList(page', ret'.type)
             changed == { i \in 1..Len(old) : new[i] # old[i] }
         IN  /\ OnlyListChanges(ret'.type)
             /\ Len(new) = Len(old)
             /\ ~ret'.threw
             /\ IF Matching(old, ret'.id) = {}
                THEN changed = {}
                ELSE /\ Cardinality(changed) = 1
                     /\ \A i \in changed :
                          /\ i \in Matching(old, ret'.id)
                          /\ new[i].isActive = ~old[i].isActive
                          /\ new[i] = [old[i] EXCEPT !.isActive = ~old[i].isActive]]_vars

\* The category 'training' has been toggled on a page: it is inactive there,
\* and the other categories are as they were
C23_Witness ==
    /\ page.open
    /\ ret.op = "toggleItem" /\ ret.type = "category" /\ ret.id = "training"
    /\ LET list == PageList(page, "category")
       IN  /\ Len(list) > 1
           /\ \A i \in 1..Len(list) : list[i].isActive = (list[i].id # "training")

\* C24: deleteItem with a type and an id, confirmed, removes the entries
\* with that id from that list and keeps the remaining entries unchanged and
\* in their order, leaving the other two lists untouched; an id that matches
\* no entry leaves the list unchanged.
C24_DeleteRemovesOne ==
    [][(page.open /\ ret'.op = "deleteItem" /\ ret'.confirmed) =>
         LET old == PageList(page, ret'.type)
             new == PageList(page', ret'.type)
             gone == Matching(old, ret'.id)
             kept == { i \in 1..Len(old) : i \notin gone }
         IN  /\ OnlyListChanges(ret'.type)
             /\ Len(new) = Cardinality(kept)
             /\ \A i \in kept : new[Cardinality({ j \in kept : j <= i })] = old[i]
             /\ gone = {} => new = old]_vars

\* The category 'training' has been deleted on a page that showed it between
\* other categories: it is gone, and the others are there
C24_Witness ==
    /\ page.open
    /\ ret.op = "deleteItem" /\ ret.confirmed /\ ret.type = "category" /\ ret.id = "training"
    /\ backend = "api"
    /\ LET list == PageList(page, "category")
       IN  /\ Len(list) = Len(DbCategories) - 1
           /\ \A i \in 1..Len(list) : list[i].id # "training"

\* C26: the configuration that getConfig gives changes only in a step of
\* updateConfig or importConfig (or when the application is started
\* again): no read and no edit of the configuration page changes it.
C26_ChangesOnlyThroughUpdate ==
    [][InMemory' # InMemory => ret'.op \in { "updateConfig", "importConfig", "initApp" }]_vars

-----------------------------------------------------------------------------
(* Properties: the loading of the API service *)

\* A waiting call has ended, or a call has returned at once
Returns ==
    /\ backend = "api"
    /\ ret'.op \in LoadCallers
    /\ Len(loads') < Len(loads) \/ (loads' = loads /\ config # Null)

\* C25: whatever the interleaving of the calls of getConfig,
\* getActiveLocations, getAllCategories and getAllPriorities of the API
\* service, a call that returns returns what the fully loaded configuration
\* gives, with its locations, categories and priorities; and a call that
\* fails leaves the service without a configuration, or with the fully
\* loaded one of another call, so that the next call loads again.
C25_NeverPartiallyLoaded ==
    [][Returns =>
         IF ret'.threw
         THEN config' \in { Null, ApiLoadedConfig(dbConfig) }
         ELSE ret'.value = CallerValue(ret'.op, ApiLoadedConfig(dbConfig))]_vars
====
